---- MODULE Spec2Model ----
(***************************************************************************)
(* Ferrous kernel: thread manager, round-robin scheduler, mutexes, pipes   *)
(* and the trap handler that drives them, as one state machine.            *)
(*                                                                         *)
(* The host is single threaded: every trap (an ECALL or the timer          *)
(* interrupt) is handled to completion, so one action is one trap.         *)
(* The guest program is arbitrary: between two traps the running thread    *)
(* may load any argument registers, so each syscall action draws its       *)
(* arguments from small sets.  A thread whose PC was left at the ECALL     *)
(* (blocked pipe read) can only trap again with the registers it saved.    *)
(***************************************************************************)
EXTENDS Integers, Sequences, FiniteSets, TLC

(* ------------------------------ bounds -------------------------------- *)
MaxThreads == 2
MaxContenders == 3
MaxMutexes == 1
MaxPipes == 1
MaxAcquire == 3
MaxWritten == 2
MaxLen == 2
MaxOpen == 1
MaxGrow == 1
MaxFrames == 2

ExitCodes == {0, 1}

(* --------------------------- program constants ------------------------ *)
None == 0
Argc == 1
\* u32::MAX (0xFFFF_FFFF); registers are written as two's-complement 32-bit
\* values, in which this bit pattern is -1.
U32Max == -1
PAGE_SIZE == 4096
BLOCK_SIZE == 512
INODE_DIRECT_POINTERS == 12
\* 0x8040_0000, the default heap start, as a two's-complement 32-bit value
DefaultBreak == -2143289344

SYS_PIPE          == 22
SYS_SOCKET        == 300
SYS_OPEN          == 56
SYS_CLOSE         == 57
SYS_EXEC          == 59
SYS_READ          == 63
SYS_WRITE         == 64
SYS_EXIT          == 93
SYS_YIELD         == 101
SYS_THREAD_CREATE == 102
SYS_MUTEX_CREATE  == 110
SYS_MUTEX_ACQUIRE == 111
SYS_MUTEX_RELEASE == 112
SYS_SBRK          == 214
SYS_WAITPID       == 260

(* ------------------------------ memory -------------------------------- *)
\* Physical and virtual addresses are 32 bits wide.  A page-aligned address is
\* written as its page number (address >> 12) and a word of a page table as
\* the pair of the table's page number and the index of the word.
PTE_V == 1
PTE_R == 2
PTE_W == 4
PTE_X == 8
PTE_U == 16
PTE_G == 32
PTE_A == 64
PTE_D == 128
\* 1 << 31 as a two's-complement 32-bit value
SATP_MODE_SV32 == -2147483647 - 1
\* 0x8000_0000 >> 12, the base of RAM
RamBasePage == 524288
\* the 16 MiB of RAM the command line gives the machine by default, in pages
RamPages == 4096
\* NEXT_FREE_FRAME: 0x8040_0000 >> 12
FirstFrame == 525312
\* The pages of the UART and of the block device, and the first of the 16
\* pages of the kernel stack.
UartPage == 65536
BlockPage == 131072
KernelStackPage == 528368
\* Page of the top of the user stack (0xF000_0000 >> 12)
StackTopPage == 983040

Has(word, bit) == (word \div bit) % 2 = 1
SetBit(word, bit) == IF Has(word, bit) THEN word ELSE word + bit

PageOf(addr) == (addr \div PAGE_SIZE) % 1048576
OffsetOf(addr) == addr % PAGE_SIZE

\* SimpleMemory behind the SystemBus: RAM answers from its base to its size.
InRam(ppn) == RamBasePage <= ppn /\ ppn < RamBasePage + RamPages

\* Memory M: M.base is the content of RAM once Kernel::init_memory has run,
\* M.delta the words that have since been given another value; every other
\* word is zero.  M.next_free_frame is the bump allocator's static.
WordAt(ppn, idx) == ppn * 1024 + idx

BaseWord(M, wa) == IF wa \in DOMAIN M.base THEN M.base[wa] ELSE 0

read_word(M, ppn, idx) ==
    IF ~InRam(ppn) THEN [res |-> "error", val |-> 0]
    ELSE LET wa == WordAt(ppn, idx)
         IN  [res |-> "ok",
              val |-> IF wa \in DOMAIN M.delta THEN M.delta[wa] ELSE BaseWord(M, wa)]

write_word(M, ppn, idx, val) ==
    LET wa == WordAt(ppn, idx)
        keep == IF val = BaseWord(M, wa) THEN DOMAIN M.delta \ {wa}
                ELSE DOMAIN M.delta \cup {wa}
    IN  [M EXCEPT !.delta = [x \in keep |-> IF x = wa THEN val ELSE M.delta[x]]]

\* for i in 0..1024 { write_word(table + i * 4, 0) }
zero_table(M, ppn) ==
    LET others == {x \in DOMAIN M.delta : x \div 1024 # ppn}
        cleared == {x \in DOMAIN M.base : x \div 1024 = ppn /\ M.base[x] # 0}
    IN  [M EXCEPT !.delta = [x \in others \cup cleared |->
                                IF x \in others THEN M.delta[x] ELSE 0]]

alloc_frame(M) ==
    [frame |-> M.next_free_frame,
     M |-> [M EXCEPT !.next_free_frame = @ + 1]]

\* map_page(memory, root_ppn, vaddr, paddr, flags) for the pages vpn and ppn:
\* the leaf is written with l0_flags, which map_page makes of flags.
\* The last step of map_page: the leaf l0_pte is written into the
\* second-level table the first-level entry l1_pte points to.
write_l0(M, l1_pte, vpn0, l0_pte) ==
    IF ~InRam(((l1_pte \div 1024) % 4194304) % 1048576)
    THEN [res |-> "error", M |-> M]
    ELSE [res |-> "ok",
          M |-> write_word(M, ((l1_pte \div 1024) % 4194304) % 1048576, vpn0, l0_pte)]

\* The first-level entry is not valid: the frame a.frame becomes the
\* second-level table, is zeroed and is entered in the root table.
new_l0_table(a, root, vpn1, vpn0, l0_pte) ==
    IF ~InRam(a.frame) THEN [res |-> "error", M |-> a.M]
    ELSE write_l0(write_word(zero_table(a.M, a.frame), root, vpn1,
                             a.frame * 1024 + PTE_V),
                  a.frame * 1024 + PTE_V, vpn0, l0_pte)

\* map_page once the first-level entry has been read (l1).
walk_l1(M, root, vpn1, vpn0, l0_pte, l1) ==
    IF l1.res = "error" THEN [res |-> "error", M |-> M]
    ELSE IF ~Has(l1.val, PTE_V)
    THEN new_l0_table(alloc_frame(M), root, vpn1, vpn0, l0_pte)
    ELSE write_l0(M, l1.val, vpn0, l0_pte)

write_leaf(M, root_ppn, vpn, ppn, l0_flags) ==
    walk_l1(M, root_ppn % 1048576, (vpn \div 1024) % 1024, vpn % 1024,
            ppn * 1024 + l0_flags,
            read_word(M, root_ppn % 1048576, (vpn \div 1024) % 1024))

map_page_as_given(M, root_ppn, vpn, ppn, flags) ==
    write_leaf(M, root_ppn, vpn, ppn, flags)

map_page(M, root_ppn, vpn, ppn, flags) ==
    write_leaf(M, root_ppn, vpn, ppn,
               SetBit(SetBit(SetBit(flags, PTE_V), PTE_A), PTE_D))

\* for i in 0..n { map_page(memory, root_ppn, start + i * PAGE_SIZE,
\*                          start + i * PAGE_SIZE, flags)? }
\* The pages are mapped in ascending order: the first half of the range, then
\* the rest (which keeps the evaluation shallow for the kernel's 1024 pages).
RECURSIVE identity_map(_, _, _, _, _)
\* The rest of the range once its first part is mapped (m); an error ends
\* the loop (the ? operator).
identity_map_rest(m, root_ppn, start, n, flags) ==
    IF m.res = "error" THEN m ELSE identity_map(m.M, root_ppn, start, n, flags)

identity_map(M, root_ppn, start, n, flags) ==
    IF n = 0 THEN [res |-> "ok", M |-> M]
    ELSE IF n = 1 THEN map_page(M, root_ppn, start, start, flags)
    ELSE identity_map_rest(identity_map(M, root_ppn, start, n \div 2, flags),
                           root_ppn, start + n \div 2, n - n \div 2, flags)

\* A fresh, zeroed root table.
alloc_root(M) ==
    LET a == alloc_frame(M)
    IN  [res |-> IF InRam(a.frame) THEN "ok" ELSE "error",
         root_ppn |-> a.frame,
         M |-> zero_table(a.M, a.frame)]

\* map_page(...)? after the steps that gave m: an error ends the function.
then_map_page(m, root_ppn, vpn, ppn, flags) ==
    IF m.res = "error" THEN m ELSE map_page(m.M, root_ppn, vpn, ppn, flags)

\* Ok(SATP_MODE_SV32 | root_ppn) after the steps that gave m.
address_space(m, root_ppn) ==
    [res |-> m.res, satp |-> SATP_MODE_SV32 + root_ppn, M |-> m.M]

\* setup_kernel_address_space once the root table is allocated (r): RAM's
\* first 4 MiB, the UART, the block device and the kernel stack, identity
\* mapped for the supervisor.
kernel_mappings(r) ==
    address_space(
        identity_map_rest(
            then_map_page(
                then_map_page(
                    identity_map_rest(r, r.root_ppn, RamBasePage, 1024,
                                      PTE_R + PTE_W + PTE_X),
                    r.root_ppn, UartPage, UartPage, PTE_R + PTE_W),
                r.root_ppn, BlockPage, BlockPage, PTE_R + PTE_W),
            r.root_ppn, KernelStackPage, 16, PTE_R + PTE_W),
        r.root_ppn)

setup_kernel_address_space(M) == kernel_mappings(alloc_root(M))

\* create_user_address_space once the root table is allocated (r): the UART
\* and the block device, identity mapped without U.
user_mappings(r) ==
    address_space(
        then_map_page(
            then_map_page(r, r.root_ppn, UartPage, UartPage, PTE_R + PTE_W),
            r.root_ppn, BlockPage, BlockPage, PTE_R + PTE_W),
        r.root_ppn)

create_user_address_space(M) == user_mappings(alloc_root(M))

\* RAM as SimpleMemory::new leaves it and the allocator before its first call.
Memory_new == [base |-> <<>>, delta |-> <<>>, next_free_frame |-> FirstFrame]

\* Kernel::init_memory, called once by Runtime::new.
init_memory == setup_kernel_address_space(Memory_new)

\* RAM as init_memory leaves it.
BootRam == init_memory.M.delta

\* The satp init_memory returns, which Runtime::new stores in vm.cpu.satp:
\* Sv32 mode and the root table, the first frame allocated.
KernelSatp == SATP_MODE_SV32 + alloc_root(Memory_new).root_ppn

\* The memory a booted kernel starts from.
booted(m) ==
    [base |-> m.M.delta, delta |-> <<>>, next_free_frame |-> m.M.next_free_frame]

Memory_booted == booted(init_memory)

\* ----- address translation (Sv32) -----
AccessTypes == {"Read", "Write", "Execute"}
PrivilegeModes == {"User", "Supervisor", "Machine"}

PageFault_load(access_type) == "LoadPageFault"

PageFault(access_type) ==
    CASE access_type = "Read"    -> "LoadPageFault"
      [] access_type = "Write"   -> "StorePageFault"
      [] access_type = "Execute" -> "InstructionPageFault"

Translated(page, offset) == [res |-> "ok", page |-> page, offset |-> offset]
Fault(cause) == [res |-> cause, page |-> 0, offset |-> 0]

check_permissions_any_mode(pte, access_type, mode) ==
    CASE access_type = "Read"    -> Has(pte, PTE_R) \/ Has(pte, PTE_X)
      [] access_type = "Write"   -> Has(pte, PTE_W)
      [] access_type = "Execute" -> Has(pte, PTE_X)

check_permissions(pte, access_type, mode) ==
    IF mode = "User" /\ ~Has(pte, PTE_U) THEN FALSE
    ELSE IF mode = "Supervisor" /\ Has(pte, PTE_U) THEN FALSE
    ELSE CASE access_type = "Read"    -> Has(pte, PTE_R) \/ Has(pte, PTE_X)
           [] access_type = "Write"   -> Has(pte, PTE_W)
           [] access_type = "Execute" -> Has(pte, PTE_X)

IsLeaf(pte) == Has(pte, PTE_R) \/ Has(pte, PTE_W) \/ Has(pte, PTE_X)

\* translate(addr, access_type, satp, mode, memory) for the address at offset
\* of the virtual page vpn.
translate(M, vpn, offset, access_type, satp, mode) ==
    IF satp >= 0 \/ mode = "Machine" THEN Translated(vpn, offset)
    ELSE
    LET ppn_root == (satp % 4194304) % 1048576
        vpn1 == (vpn \div 1024) % 1024
        vpn0 == vpn % 1024
        r1 == read_word(M, ppn_root, vpn1)
        pte1 == r1.val
    IN  IF r1.res = "error" THEN Fault("LoadAccessFault")
        ELSE IF ~Has(pte1, PTE_V) THEN Fault(PageFault(access_type))
        ELSE IF IsLeaf(pte1)
        THEN IF (pte1 \div 1024) % 1024 # 0 THEN Fault(PageFault(access_type))
             ELSE IF ~check_permissions(pte1, access_type, mode)
             THEN Fault(PageFault(access_type))
             ELSE Translated((((pte1 \div 1048576) % 4096) % 1024) * 1024 + vpn0,
                             offset)
        ELSE
        LET ppn1 == ((pte1 \div 1024) % 4194304) % 1048576
            r0 == read_word(M, ppn1, vpn0)
            pte0 == r0.val
        IN  IF r0.res = "error" THEN Fault("LoadAccessFault")
            ELSE IF ~Has(pte0, PTE_V) THEN Fault(PageFault(access_type))
            ELSE IF ~IsLeaf(pte0) THEN Fault(PageFault(access_type))
            ELSE IF ~check_permissions(pte0, access_type, mode)
            THEN Fault(PageFault(access_type))
            ELSE Translated(((pte0 \div 1024) % 4194304) % 1048576, offset)

(* ----------------------------- ThreadState ---------------------------- *)
Ready           == [tag |-> "Ready",      target |-> None, exit_code |-> 0]
Running         == [tag |-> "Running",    target |-> None, exit_code |-> 0]
Blocked         == [tag |-> "Blocked",    target |-> None, exit_code |-> 0]
Waiting(t)      == [tag |-> "Waiting",    target |-> t,    exit_code |-> 0]
Terminated(c)   == [tag |-> "Terminated", target |-> None, exit_code |-> c]

(* --------------------------- FileDescriptor --------------------------- *)
NoFd           == [kind |-> "none", pipe_id |-> 0, is_write |-> FALSE,
                   inode_id |-> 0, offset |-> 0, socket_id |-> 0]
PipeFd(p, w)   == [kind |-> "pipe", pipe_id |-> p, is_write |-> w,
                   inode_id |-> 0, offset |-> 0, socket_id |-> 0]
FileFd(i, o)   == [kind |-> "file", pipe_id |-> 0, is_write |-> FALSE,
                   inode_id |-> i, offset |-> o, socket_id |-> 0]
SocketFd(s)    == [kind |-> "socket", pipe_id |-> 0, is_write |-> FALSE,
                   inode_id |-> 0, offset |-> 0, socket_id |-> s]

(* ------------------------------- CPU ---------------------------------- *)
\* pc is symbolic: "entry" (a thread's entry point), "ecall" (the address of
\* the ECALL being served or to be re-executed), "user" (past the ECALL).
\* Of the 32 registers the kernel reads a7, a0 and a2 and writes a0; s0 stands
\* for the registers it neither reads nor writes.  The machine is taken to
\* start in Machine mode; where the mode matters it starts in any mode.
Cpu_new == [pc |-> "entry", a0 |-> 0, a2 |-> 0, a7 |-> 0, s0 |-> 0,
            satp |-> KernelSatp, mode |-> "Machine"]

\* SavedContext::new(entry_point, stack_top, satp, mode): the registers are
\* zero but for the stack pointer, which the kernel does not use afterwards.
SavedContext_new(entry_point, satp, mode) ==
    [pc |-> entry_point, a0 |-> 0, a2 |-> 0, a7 |-> 0, s0 |-> 0,
     satp |-> satp, mode |-> mode]

\* self.pc = cpu.pc; self.regs = cpu.regs; self.satp = cpu.satp; self.mode = cpu.mode
save_from(cpu) ==
    [pc |-> cpu.pc, a0 |-> cpu.a0, a2 |-> cpu.a2, a7 |-> cpu.a7, s0 |-> cpu.s0,
     satp |-> cpu.satp, mode |-> cpu.mode]

\* cpu.pc = self.pc; cpu.regs = self.regs; cpu.satp = self.satp; cpu.mode = self.mode
restore_to(context, cpu) ==
    [pc |-> context.pc, a0 |-> context.a0, a2 |-> context.a2, a7 |-> context.a7,
     s0 |-> context.s0, satp |-> context.satp, mode |-> context.mode]

\* cpu.pc + 4 with the PC at the ECALL
PcPlus4(pc) == "user"

(* ------------------------- RoundRobinScheduler ------------------------ *)
enqueue_front(ready_queue, thread) == <<thread>> \o ready_queue

enqueue(ready_queue, thread) == Append(ready_queue, thread)

\* schedule(): pop_front; None when the queue is empty
schedule(ready_queue) ==
    IF ready_queue = <<>>
    THEN [next |-> None, ready_queue |-> ready_queue]
    ELSE [next |-> Head(ready_queue), ready_queue |-> Tail(ready_queue)]

(* ---------------------------- ThreadManager --------------------------- *)
ThreadManager_new ==
    [threads |-> <<>>, ready_queue |-> <<>>, current_thread |-> None, next_handle |-> 1]

Reserved3 == <<NoFd, NoFd, NoFd>>

ensure_current_thread(tm, cpu) ==
    IF tm.current_thread = None
    THEN LET handle == tm.next_handle
             tcb == [state |-> Running,
                     context |-> SavedContext_new(cpu.pc, cpu.satp, cpu.mode),
                     program_break |-> DefaultBreak,
                     file_descriptors |-> Reserved3]
         IN  [tm EXCEPT !.threads = (handle :> tcb) @@ tm.threads,
                        !.next_handle = handle + 1,
                        !.current_thread = handle]
    ELSE tm

\* A faulty create_thread: the handle of a terminated thread is issued again.
create_thread_reuse(tm) ==
    LET dead == {h \in DOMAIN tm.threads : tm.threads[h].state.tag = "Terminated"}
        handle == IF dead # {} THEN CHOOSE h \in dead : TRUE ELSE tm.next_handle
        cur == tm.current_thread
        has_parent == cur # None /\ cur \in DOMAIN tm.threads
        tcb == [state |-> Ready,
                context |-> SavedContext_new("entry",
                               IF has_parent THEN tm.threads[cur].context.satp
                               ELSE KernelSatp, "User"),
                program_break |-> IF has_parent THEN tm.threads[cur].program_break
                                  ELSE DefaultBreak,
                file_descriptors |-> IF has_parent THEN tm.threads[cur].file_descriptors
                                     ELSE Reserved3]
    IN  [tm |-> [tm EXCEPT !.threads = (handle :> tcb) @@ tm.threads,
                           !.next_handle = IF dead # {} THEN @ ELSE handle + 1,
                           !.ready_queue = enqueue(tm.ready_queue, handle)],
         handle |-> handle]

\* A faulty create_thread: the new thread starts with the default break and
\* descriptor table instead of its creator's.
create_thread_fresh(tm) ==
    LET handle == tm.next_handle
        cur == tm.current_thread
        has_parent == cur # None /\ cur \in DOMAIN tm.threads
        satp == IF has_parent THEN tm.threads[cur].context.satp ELSE KernelSatp
        tcb == [state |-> Ready,
                context |-> SavedContext_new("entry", satp, "User"),
                program_break |-> DefaultBreak,
                file_descriptors |-> Reserved3]
    IN  [tm |-> [tm EXCEPT !.threads = (handle :> tcb) @@ tm.threads,
                           !.next_handle = handle + 1,
                           !.ready_queue = enqueue(tm.ready_queue, handle)],
         handle |-> handle]

create_thread(tm) ==
    LET handle == tm.next_handle
        cur == tm.current_thread
        has_parent == cur # None /\ cur \in DOMAIN tm.threads
        satp == IF has_parent THEN tm.threads[cur].context.satp ELSE KernelSatp
        program_break ==
            IF has_parent THEN tm.threads[cur].program_break ELSE DefaultBreak
        file_descriptors ==
            IF has_parent THEN tm.threads[cur].file_descriptors ELSE Reserved3
        tcb == [state |-> Ready,
                context |-> SavedContext_new("entry", satp, "User"),
                program_break |-> program_break,
                file_descriptors |-> file_descriptors]
    IN  [tm |-> [tm EXCEPT !.threads = (handle :> tcb) @@ tm.threads,
                           !.next_handle = handle + 1,
                           !.ready_queue = enqueue(tm.ready_queue, handle)],
         handle |-> handle]

\* A faulty switch_out: the current thread is enqueued but left Running.
switch_out_still_running(tm, cpu) ==
    LET cur == tm.current_thread
    IN  IF cur # None /\ cur \in DOMAIN tm.threads
        THEN IF tm.threads[cur].state = Running
             THEN [tm EXCEPT !.threads[cur].context = save_from(cpu),
                             !.ready_queue = enqueue(tm.ready_queue, cur)]
             ELSE [tm EXCEPT !.threads[cur].context = save_from(cpu)]
        ELSE tm

\* A faulty switch_out: the current thread becomes Ready but is not enqueued.
switch_out_not_queued(tm, cpu) ==
    LET cur == tm.current_thread
    IN  IF cur # None /\ cur \in DOMAIN tm.threads
        THEN IF tm.threads[cur].state = Running
             THEN [tm EXCEPT !.threads[cur].state = Ready,
                             !.threads[cur].context = save_from(cpu)]
             ELSE [tm EXCEPT !.threads[cur].context = save_from(cpu)]
        ELSE tm

\* First half of yield_thread: a current thread that is still Running becomes
\* Ready and is enqueued; the CPU is saved into the current thread's context.
switch_out(tm, cpu) ==
    LET cur == tm.current_thread
    IN  IF cur # None /\ cur \in DOMAIN tm.threads
        THEN IF tm.threads[cur].state = Running
             THEN [tm EXCEPT !.threads[cur].state = Ready,
                             !.threads[cur].context = save_from(cpu),
                             !.ready_queue = enqueue(tm.ready_queue, cur)]
             ELSE [tm EXCEPT !.threads[cur].context = save_from(cpu)]
        ELSE tm

\* Second half of yield_thread: run the head of the ready queue; with an
\* empty queue the result is false unless the current thread is Running.
pick_next(tm, cpu) ==
    LET s == schedule(tm.ready_queue)
        next == s.next
        cur == tm.current_thread
    IN  IF next # None
        THEN [tm |-> [tm EXCEPT
                        !.threads = IF next \in DOMAIN tm.threads
                                    THEN [tm.threads EXCEPT ![next].state = Running]
                                    ELSE tm.threads,
                        !.ready_queue = s.ready_queue,
                        !.current_thread = next],
              cpu |-> IF next \in DOMAIN tm.threads
                      THEN restore_to(tm.threads[next].context, cpu) ELSE cpu,
              scheduled |-> TRUE]
        ELSE [tm |-> tm,
              cpu |-> cpu,
              scheduled |-> IF cur = None THEN FALSE
                            ELSE IF cur \in DOMAIN tm.threads
                                    /\ tm.threads[cur].state # Running THEN FALSE
                            ELSE TRUE]

\* Returns the manager, the CPU and the boolean result of yield_thread.
yield_thread(tm, cpu) == pick_next(switch_out(tm, cpu), cpu)

\* The waiters of the exiting thread, in BTreeMap (ascending handle) order.
RECURSIVE WakeWaiters(_, _, _, _, _)
WakeWaiters(threads, queue, h, current, code) ==
    IF h \notin DOMAIN threads THEN [threads |-> threads, ready_queue |-> queue]
    ELSE IF threads[h].state.tag = "Waiting" /\ threads[h].state.target = current
         THEN WakeWaiters([threads EXCEPT ![h].state = Ready, ![h].context.a0 = code],
                          enqueue(queue, h), h + 1, current, code)
         ELSE WakeWaiters(threads, queue, h + 1, current, code)

exit_current_thread(tm, code) ==
    IF tm.current_thread # None
    THEN LET cur == tm.current_thread
             w == WakeWaiters(tm.threads, tm.ready_queue, 1, cur, code)
         IN  [tm EXCEPT
                !.threads = IF cur \in DOMAIN w.threads
                            THEN [w.threads EXCEPT ![cur].state = Terminated(code)]
                            ELSE w.threads,
                !.ready_queue = w.ready_queue,
                !.current_thread = None]
    ELSE tm

block_current_thread(tm) ==
    IF tm.current_thread # None /\ tm.current_thread \in DOMAIN tm.threads
    THEN [tm EXCEPT !.threads[tm.current_thread].state = Blocked]
    ELSE tm

\* Result: "exited" with the exit code, "waiting", or "error".
wait_current_thread(tm, target) ==
    IF target \notin DOMAIN tm.threads
    THEN [tm |-> tm, res |-> "error", exit_code |-> 0]
    ELSE IF tm.threads[target].state.tag = "Terminated"
    THEN [tm |-> tm, res |-> "exited", exit_code |-> tm.threads[target].state.exit_code]
    ELSE IF tm.current_thread = None \/ tm.current_thread = target
    THEN [tm |-> tm, res |-> "error", exit_code |-> 0]
    ELSE [tm |-> IF tm.current_thread \in DOMAIN tm.threads
                 THEN [tm EXCEPT !.threads[tm.current_thread].state = Waiting(target)]
                 ELSE tm,
          res |-> "waiting", exit_code |-> 0]

wake_thread(tm, handle) ==
    IF handle \in DOMAIN tm.threads /\ tm.threads[handle].state = Blocked
    THEN [tm EXCEPT !.threads[handle].state = Ready,
                    !.ready_queue = enqueue(tm.ready_queue, handle)]
    ELSE tm

RECURSIVE WakeAll(_, _)
WakeAll(tm, to_wake) ==
    IF to_wake = <<>> THEN tm
    ELSE WakeAll(wake_thread(tm, Head(to_wake)), Tail(to_wake))

\* bootstrap_process: the initial thread is made by create_thread (Ready and
\* enqueued) and then installed as the current thread.
\* let frame = alloc_frame(); map_page(memory, root_ppn, vaddr, frame, flags)
map_fresh(M, root_ppn, vpn, flags) ==
    LET a == alloc_frame(M)
    IN  map_page(a.M, root_ppn, vpn, a.frame, flags)

\* while page_addr < end_page { map a fresh frame; page_addr += PAGE_SIZE }
RECURSIVE map_range(_, _, _, _, _)
\* The rest of the loop once a page is mapped (m): an error ends it.
map_range_rest(m, root_ppn, page, end_page, flags) ==
    IF m.res = "error" THEN m ELSE map_range(m.M, root_ppn, page, end_page, flags)

map_range(M, root_ppn, page, end_page, flags) ==
    IF ~(page < end_page) THEN [res |-> "ok", M |-> M]
    ELSE map_range_rest(map_fresh(M, root_ppn, page, flags),
                        root_ppn, page + 1, end_page, flags)

\* for i in 0..n { vaddr = stack_top - (i + 1) * PAGE_SIZE; map a fresh frame }
RECURSIVE map_stack(_, _, _, _, _)
\* The rest of the loop once a page is mapped (m): an error ends it.
map_stack_rest(m, root_ppn, top, n, flags) ==
    IF m.res = "error" THEN m ELSE map_stack(m.M, root_ppn, top, n, flags)

map_stack(M, root_ppn, top, n, flags) ==
    IF n = 0 THEN [res |-> "ok", M |-> M]
    ELSE map_stack_rest(map_fresh(M, root_ppn, top - 1, flags),
                        root_ppn, top - 1, n - 1, flags)

\* The programs of the model are one PT_LOAD segment that begins and ends
\* within the page at ProgramPage; what the frames hold is not tracked.
ProgramPage == 0
StackPages == 4

\* Heap start of a loaded program: the end of its segments rounded up to a
\* page.
heap_start == (ProgramPage + 1) * PAGE_SIZE

\* The part of bootstrap_process and of Exec that builds the address space:
\* create_user_address_space, the segment pages, the stack pages.
\* The stack pages, mapped once the segment pages are (seg).
load_stack(satp, seg) ==
    IF seg.res = "error" THEN [res |-> "error", satp |-> satp, M |-> seg.M]
    ELSE LET st == map_stack(seg.M, satp % 4194304, StackTopPage, StackPages,
                             PTE_R + PTE_W + PTE_U)
         IN  [res |-> st.res, satp |-> satp, M |-> st.M]

\* The segment pages, mapped once the address space exists (s).
load_segments(s) ==
    IF s.res = "error" THEN [res |-> "error", satp |-> s.satp, M |-> s.M]
    ELSE load_stack(s.satp,
                    map_fresh(s.M, s.satp % 4194304, ProgramPage,
                              PTE_R + PTE_W + PTE_U + PTE_X))

load_program(M) == load_segments(create_user_address_space(M))

\* The thread of a loaded program (l), as create_thread made it (c), with
\* its address space, argument count and heap start.
program_thread(l, c, argc) ==
    [c.tm EXCEPT !.threads[c.handle].context.satp = l.satp,
                 !.threads[c.handle].context.a0 = argc,
                 !.threads[c.handle].program_break = heap_start]

bootstrapped(l, c) ==
    [satp |-> l.satp,
     memory |-> l.M,
     tm |-> [program_thread(l, c, Argc) EXCEPT !.current_thread = c.handle]]

bootstrap_process(tm, M) == bootstrapped(load_program(M), create_thread(tm))

(* ------------------------------- Mutex -------------------------------- *)
Mutex_new(id) == [id |-> id, owner |-> None, wait_queue |-> <<>>]

(* ------------------------------- Kernel ------------------------------- *)
\* The kernel singleton together with the CPU it is handed on a trap.
\* run is "running" while VirtualMachine::run loops, "halt" after a handler
\* returned TrapError::Halt and "error" after any other TrapError.  copied is
\* what copy_to_user stored in the caller's buffer during the trap served.
Kernel_new ==
    [tm |-> ThreadManager_new,
     mutexes |-> <<>>, next_mutex_id |-> 1,
     pipes |-> <<>>, next_pipe_id |-> 1,
     file_system |-> FALSE,
     memory |-> Memory_booted,
     cpu |-> Cpu_new, run |-> "running", copied |-> <<>>]

encode_result(cpu, val) == [cpu EXCEPT !.a0 = val]

\* Ok(VirtAddr::new(cpu.pc + 4)): VirtualMachine::run stores it in cpu.pc
ResumeNext(K, cpu) == [K EXCEPT !.cpu = [cpu EXCEPT !.pc = PcPlus4(cpu.pc)]]

\* Ok(VirtAddr::new(cpu.pc)) after a context switch
ResumeAt(K, cpu) == [K EXCEPT !.cpu = cpu]

sys_thread_create(K) ==
    LET c == create_thread(K.tm)
    IN  ResumeNext([K EXCEPT !.tm = c.tm], encode_result(K.cpu, c.handle))

sys_thread_yield(K) ==
    LET cpu1 == [encode_result(K.cpu, 0) EXCEPT !.pc = PcPlus4(K.cpu.pc)]
        y == yield_thread(K.tm, cpu1)
    IN  ResumeAt([K EXCEPT !.tm = y.tm], y.cpu)

sys_exit(K, code) ==
    LET tm1 == exit_current_thread(K.tm, code)
        y == yield_thread(tm1, K.cpu)
    IN  IF ~y.scheduled
        THEN [K EXCEPT !.tm = y.tm, !.run = "halt"]
        ELSE ResumeAt([K EXCEPT !.tm = y.tm], y.cpu)

sys_mutex_create(K) ==
    LET id == K.next_mutex_id
    IN  ResumeNext([K EXCEPT !.next_mutex_id = id + 1,
                             !.mutexes = (id :> Mutex_new(id)) @@ K.mutexes],
                   encode_result(K.cpu, id))

sys_mutex_acquire(K, id) ==
    LET current_handle == K.tm.current_thread
    IN  IF current_handle = None THEN [K EXCEPT !.run = "error"]
        ELSE IF id \in DOMAIN K.mutexes
        THEN IF K.mutexes[id].owner = None
             THEN ResumeNext([K EXCEPT !.mutexes[id].owner = current_handle],
                             encode_result(K.cpu, 0))
             ELSE LET tm1 == block_current_thread(K.tm)
                      cpu1 == [encode_result(K.cpu, 0) EXCEPT !.pc = PcPlus4(K.cpu.pc)]
                      y == yield_thread(tm1, cpu1)
                  IN  ResumeAt([K EXCEPT
                                  !.mutexes[id].wait_queue = Append(@, current_handle),
                                  !.tm = y.tm],
                               y.cpu)
        ELSE ResumeNext(K, encode_result(K.cpu, U32Max))

\* A faulty pop_waiter: the most recent waiter is taken (pop_back).
pop_waiter_back(wait_queue) ==
    [next_owner |-> wait_queue[Len(wait_queue)],
     rest |-> SubSeq(wait_queue, 1, Len(wait_queue) - 1)]

\* wait_queue.pop_front(): the next owner and what stays queued
pop_waiter(wait_queue) == [next_owner |-> Head(wait_queue), rest |-> Tail(wait_queue)]

\* A faulty hand_off: the mutex is freed and the waiters stay queued.
hand_off_dropped(K, id, w) == [K EXCEPT !.mutexes[id].owner = None]

\* The release of a contended mutex: the popped waiter becomes the owner and
\* is woken.
hand_off(K, id, w) ==
    [K EXCEPT !.mutexes[id].owner = w.next_owner,
              !.mutexes[id].wait_queue = w.rest,
              !.tm = wake_thread(K.tm, w.next_owner)]

\* A faulty sys_mutex_release: the owner is not checked, any thread releases.
sys_mutex_release_unchecked(K, id) ==
    LET current_handle == K.tm.current_thread
    IN  IF current_handle = None THEN [K EXCEPT !.run = "error"]
        ELSE IF id \in DOMAIN K.mutexes
        THEN IF K.mutexes[id].wait_queue # <<>>
             THEN LET w == pop_waiter(K.mutexes[id].wait_queue)
                  IN  ResumeNext(hand_off(K, id, w), encode_result(K.cpu, 0))
             ELSE ResumeNext([K EXCEPT !.mutexes[id].owner = None],
                             encode_result(K.cpu, 0))
        ELSE ResumeNext(K, encode_result(K.cpu, U32Max))

sys_mutex_release(K, id) ==
    LET current_handle == K.tm.current_thread
    IN  IF current_handle = None THEN [K EXCEPT !.run = "error"]
        ELSE IF id \in DOMAIN K.mutexes
        THEN IF K.mutexes[id].owner = current_handle
             THEN IF K.mutexes[id].wait_queue # <<>>
                  THEN LET w == pop_waiter(K.mutexes[id].wait_queue)
                       IN  ResumeNext(hand_off(K, id, w), encode_result(K.cpu, 0))
                  ELSE ResumeNext([K EXCEPT !.mutexes[id].owner = None],
                                  encode_result(K.cpu, 0))
             ELSE ResumeNext(K, encode_result(K.cpu, U32Max))
        ELSE ResumeNext(K, encode_result(K.cpu, U32Max))

sys_waitpid(K, pid) ==
    IF pid = 0 THEN [K EXCEPT !.run = "error"]
    ELSE LET w == wait_current_thread(K.tm, pid)
         IN  IF w.res = "exited"
             THEN ResumeNext(K, encode_result(K.cpu, w.exit_code))
             ELSE IF w.res = "waiting"
             THEN LET cpu1 == [encode_result(K.cpu, 0) EXCEPT !.pc = PcPlus4(K.cpu.pc)]
                      y == yield_thread(w.tm, cpu1)
                  IN  ResumeAt([K EXCEPT !.tm = y.tm], y.cpu)
             ELSE ResumeNext(K, encode_result(K.cpu, U32Max))

(* ----------------------------- FileSystem ---------------------------- *)
\* The disk image.  Each root directory entry names an inode; in_range says
\* whether that inode id is below the superblock's total_inodes, readable
\* whether read_data can deliver the file's data (every sector of it can be
\* read and its size stays within the 12 direct and 128 indirect blocks), elf
\* whether the data parses as an ELF image.
Files == {"prog", "bad", "stale"}
Paths == Files \cup {"nofile"}

\* direct_ptrs and indirect_ptr are the block pointers of the inode (0 is a
\* sparse block) and indirect the pointers held by its indirect block.
Pointers(n, first) == [i \in 1..n |-> first + i]

NoPointers(n) == [i \in 1..n |-> 0]

Inode(name) ==
    CASE name = "prog"  -> [inode_id |-> 1, in_range |-> TRUE,  size |-> 2,
                            readable |-> TRUE,  elf |-> TRUE,
                            direct_ptrs |-> Pointers(INODE_DIRECT_POINTERS, 10),
                            indirect_ptr |-> 0,
                            indirect |-> NoPointers(BLOCK_SIZE \div 4)]
      [] name = "bad"   -> [inode_id |-> 2, in_range |-> TRUE,  size |-> 2,
                            readable |-> FALSE, elf |-> FALSE,
                            direct_ptrs |-> Pointers(INODE_DIRECT_POINTERS, 30),
                            indirect_ptr |-> 0,
                            indirect |-> NoPointers(BLOCK_SIZE \div 4)]
      [] name = "stale" -> [inode_id |-> 3, in_range |-> FALSE, size |-> 0,
                            readable |-> FALSE, elf |-> FALSE,
                            direct_ptrs |-> NoPointers(INODE_DIRECT_POINTERS),
                            indirect_ptr |-> 0,
                            indirect |-> NoPointers(BLOCK_SIZE \div 4)]

\* A faulty find_inode: a name that is not in the directory resolves to the
\* first file.
find_inode_any(name) == [res |-> "found", inode_id |-> 1]

\* FileSystem::find_inode: "found" with the entry, or "missing"
find_inode(name) ==
    IF name \in Files
    THEN [res |-> "found", inode_id |-> Inode(name).inode_id]
    ELSE [res |-> "missing", inode_id |-> 0]

\* FileSystem::read_inode: the inode with this id, "error" when out of range
read_inode(inode_id) ==
    LET name == CHOOSE n \in Files : Inode(n).inode_id = inode_id
    IN  IF Inode(name).in_range
        THEN [res |-> "ok", inode |-> Inode(name)]
        ELSE [res |-> "error", inode |-> Inode(name)]

Min(a, b) == IF a < b THEN a ELSE b

\* block::read_sector: Ok or Err, as the device answers for this file
read_sector(inode, block_id) == IF inode.readable THEN "ok" ELSE "error"

\* The block id of block block_index of the file: a direct pointer, a pointer
\* read from the indirect block, 0 (sparse) when there is no indirect block,
\* Err beyond the indirect block or when the indirect block cannot be read.
resolve_block(inode, block_index) ==
    IF block_index < INODE_DIRECT_POINTERS
    THEN [res |-> "ok", block_id |-> inode.direct_ptrs[block_index + 1]]
    ELSE LET indirect_index == block_index - INODE_DIRECT_POINTERS
             pointers_per_block == BLOCK_SIZE \div 4
         IN  IF indirect_index < pointers_per_block
             THEN IF inode.indirect_ptr = 0
                  THEN [res |-> "ok", block_id |-> 0]
                  ELSE IF read_sector(inode, inode.indirect_ptr) = "error"
                  THEN [res |-> "error", block_id |-> 0]
                  ELSE [res |-> "ok", block_id |-> inode.indirect[indirect_index + 1]]
             ELSE [res |-> "error", block_id |-> 0]

\* The loop of read_data: one block, or the part of it the window covers, per
\* iteration.
RECURSIVE read_blocks(_, _, _, _)
read_blocks(inode, current_offset, end_offset, bytes_read) ==
    IF current_offset >= end_offset THEN [res |-> "ok", bytes |-> bytes_read]
    ELSE LET block_index == current_offset \div BLOCK_SIZE
             offset_in_block == current_offset % BLOCK_SIZE
             bytes_to_read == Min(BLOCK_SIZE - offset_in_block,
                                  end_offset - current_offset)
             b == resolve_block(inode, block_index)
         IN  IF b.res = "error" THEN [res |-> "error", bytes |-> 0]
             ELSE IF b.block_id # 0 /\ read_sector(inode, b.block_id) = "error"
             THEN [res |-> "error", bytes |-> 0]
             ELSE read_blocks(inode, current_offset + bytes_to_read, end_offset,
                              bytes_read + bytes_to_read)

\* A faulty read_data: the window is not clipped to the size of the file.
read_data_unclipped(inode, offset, len) ==
    IF offset >= inode.size THEN [res |-> "ok", bytes |-> 0]
    ELSE read_blocks(inode, offset, offset + len, 0)

\* FileSystem::read_data into a buffer of len bytes: Ok(0) at end of file,
\* Err when a block cannot be delivered, else the number of bytes read.
read_data(inode, offset, len) ==
    IF offset >= inode.size THEN [res |-> "ok", bytes |-> 0]
    ELSE read_blocks(inode, offset, Min(offset + len, inode.size), 0)

sys_open(K, path) ==
    LET current_handle == K.tm.current_thread
    IN  IF current_handle = None THEN [K EXCEPT !.run = "error"]
        ELSE LET found == IF K.file_system THEN find_inode(path)
                          ELSE [res |-> "missing", inode_id |-> 0]
                 fd_idx == Len(K.tm.threads[current_handle].file_descriptors)
             IN  IF found.res = "found"
                 THEN ResumeNext(
                        [K EXCEPT !.tm.threads[current_handle].file_descriptors =
                                      Append(@, FileFd(found.inode_id, 0))],
                        encode_result(K.cpu, fd_idx))
                 ELSE ResumeNext(K, encode_result(K.cpu, U32Max))

\* The file branch of FileRead.
sys_read_file(K, fd, descriptor, len) ==
    LET current_handle == K.tm.current_thread
    IN  IF ~K.file_system THEN ResumeNext(K, encode_result(K.cpu, U32Max))
        ELSE LET i == read_inode(descriptor.inode_id)
                 r == read_data(i.inode, descriptor.offset, len)
             IN  IF i.res = "error" \/ r.res = "error"
                 THEN [K EXCEPT !.run = "error"]
                 ELSE ResumeNext(
                        [K EXCEPT !.tm.threads[current_handle]
                                      .file_descriptors[fd + 1].offset = @ + r.bytes],
                        encode_result(K.cpu, r.bytes))

\* Exec: load the named program from the disk into a fresh address space and
\* start it as a new thread.
\* Exec once the program is loaded (l) and its thread created (c).
exec_loaded(K, l, c, args_len) ==
    IF l.res = "error"
    THEN [K EXCEPT !.run = "error", !.memory = l.M]
    ELSE ResumeNext([K EXCEPT !.memory = l.M,
                              !.tm = program_thread(l, c, args_len)],
                    encode_result(K.cpu, c.handle))

sys_exec(K, path, args_len) ==
    LET current_handle == K.tm.current_thread
    IN  IF current_handle = None THEN [K EXCEPT !.run = "error"]
        ELSE IF ~K.file_system THEN [K EXCEPT !.run = "error"]
        ELSE IF find_inode(path).res = "missing" THEN [K EXCEPT !.run = "error"]
        ELSE LET i == read_inode(find_inode(path).inode_id)
                 r == read_data(i.inode, 0, i.inode.size)
             IN  IF i.res = "error" \/ r.res = "error" \/ ~i.inode.elf
                 THEN [K EXCEPT !.run = "error"]
                 ELSE exec_loaded(K, load_program(K.memory), create_thread(K.tm),
                                  args_len)

\* Sbrk: the old break is returned; growing maps a fresh frame, user R|W, at
\* every page from the old break rounded up to the new break rounded up.
sys_sbrk_grow_only(K, increment) ==
    LET current_handle == K.tm.current_thread
    IN  IF current_handle = None THEN [K EXCEPT !.run = "error"]
        ELSE LET current_break == K.tm.threads[current_handle].program_break
                 root_ppn == K.tm.threads[current_handle].context.satp % 4194304
                 new_break == current_break + increment
                 old_page_end == PageOf(current_break + PAGE_SIZE - 1)
                 new_page_end == PageOf(new_break + PAGE_SIZE - 1)
                 g == IF increment > 0 /\ new_page_end > old_page_end
                      THEN map_range(K.memory, root_ppn, old_page_end, new_page_end,
                                     PTE_R + PTE_W + PTE_U)
                      ELSE [res |-> "ok", M |-> K.memory]
             IN  IF increment = 0
                 THEN ResumeNext(K, encode_result(K.cpu, current_break))
                 ELSE IF g.res = "error"
                 THEN [K EXCEPT !.run = "error", !.memory = g.M]
                 ELSE ResumeNext(
                        [K EXCEPT !.memory = g.M,
                                  !.tm.threads[current_handle].program_break =
                                      IF increment > 0 THEN new_break ELSE @],
                        encode_result(K.cpu, current_break))

sys_sbrk(K, increment) ==
    LET current_handle == K.tm.current_thread
    IN  IF current_handle = None THEN [K EXCEPT !.run = "error"]
        ELSE LET current_break == K.tm.threads[current_handle].program_break
                 root_ppn == K.tm.threads[current_handle].context.satp % 4194304
                 new_break == current_break + increment
                 old_page_end == PageOf(current_break + PAGE_SIZE - 1)
                 new_page_end == PageOf(new_break + PAGE_SIZE - 1)
                 g == IF increment > 0 /\ new_page_end > old_page_end
                      THEN map_range(K.memory, root_ppn, old_page_end, new_page_end,
                                     PTE_R + PTE_W + PTE_U)
                      ELSE [res |-> "ok", M |-> K.memory]
             IN  IF increment = 0
                 THEN ResumeNext(K, encode_result(K.cpu, current_break))
                 ELSE IF g.res = "error"
                 THEN [K EXCEPT !.run = "error", !.memory = g.M]
                 ELSE ResumeNext(
                        [K EXCEPT !.memory = g.M,
                                  !.tm.threads[current_handle].program_break =
                                      new_break],
                        encode_result(K.cpu, current_break))

(* -------------------------------- Pipes ------------------------------- *)
Pipe_new == [buffer |-> <<>>, read_open |-> TRUE, write_open |-> TRUE, wait_queue |-> <<>>]

\* tcb.file_descriptors[fd] when fd is inside the table, None otherwise.
\* fd is a u32: a register holding a negative two's-complement value is a
\* large index.
Descriptor(tcb, fd) ==
    IF 0 <= fd /\ fd < Len(tcb.file_descriptors)
    THEN tcb.file_descriptors[fd + 1]
    ELSE NoFd

\* The map without the entry of key id (BTreeMap::remove)
MapRemove(map, id) == [k \in DOMAIN map \ {id} |-> map[k]]

\* The first n elements of a sequence, or all of it when it is shorter
Front(seq, n) == SubSeq(seq, 1, IF n < Len(seq) THEN n ELSE Len(seq))

\* A faulty Rest: the bytes read stay in the buffer.
Rest_undrained(seq, n) == seq

\* What is left of a sequence after its first n elements
Rest(seq, n) == SubSeq(seq, (IF n < Len(seq) THEN n ELSE Len(seq)) + 1, Len(seq))

sys_pipe(K) ==
    LET current_handle == K.tm.current_thread
        pipe_id == K.next_pipe_id
    IN  IF current_handle = None THEN [K EXCEPT !.run = "error"]
        ELSE ResumeNext(
               [K EXCEPT !.next_pipe_id = pipe_id + 1,
                         !.pipes = (pipe_id :> Pipe_new) @@ K.pipes,
                         !.tm.threads[current_handle].file_descriptors =
                              Append(Append(@, PipeFd(pipe_id, FALSE)), PipeFd(pipe_id, TRUE))],
               encode_result(K.cpu, 0))

\* buf is the payload copy_from_user fetched from user memory (len bytes).
sys_write(K, fd, buf) ==
    LET current_handle == K.tm.current_thread
        len == Len(buf)
    IN  IF current_handle = None THEN [K EXCEPT !.run = "error"]
        ELSE
        LET descriptor == Descriptor(K.tm.threads[current_handle], fd)
        IN  IF (fd = 1 \/ fd = 2) /\ descriptor = NoFd
            THEN ResumeNext(K, encode_result(K.cpu, len))
            ELSE IF descriptor.kind = "pipe"
            THEN IF ~descriptor.is_write
                 THEN ResumeNext(K, encode_result(K.cpu, U32Max))
                 ELSE IF descriptor.pipe_id \in DOMAIN K.pipes
                 THEN LET pipe == K.pipes[descriptor.pipe_id]
                      IN  IF ~pipe.read_open
                          THEN ResumeNext(K, encode_result(K.cpu, U32Max))
                          ELSE ResumeNext(
                                 [K EXCEPT
                                    !.pipes[descriptor.pipe_id].buffer = @ \o buf,
                                    !.pipes[descriptor.pipe_id].wait_queue = <<>>,
                                    !.tm = WakeAll(K.tm, pipe.wait_queue)],
                                 encode_result(K.cpu, len))
                 ELSE ResumeNext(K, encode_result(K.cpu, U32Max))
            ELSE ResumeNext(K, encode_result(K.cpu, U32Max))

sys_read(K, fd, len) ==
    LET current_handle == K.tm.current_thread
    IN  IF current_handle = None THEN [K EXCEPT !.run = "error"]
        ELSE
        LET descriptor == Descriptor(K.tm.threads[current_handle], fd)
        IN  IF descriptor.kind = "pipe"
            THEN IF descriptor.is_write
                 THEN ResumeNext(K, encode_result(K.cpu, U32Max))
                 ELSE IF descriptor.pipe_id \in DOMAIN K.pipes
                 THEN LET pipe_id == descriptor.pipe_id
                          pipe == K.pipes[pipe_id]
                      IN  IF pipe.buffer = <<>>
                          THEN IF ~pipe.write_open
                               THEN ResumeNext(K, encode_result(K.cpu, 0))
                               ELSE LET tm1 == block_current_thread(K.tm)
                                        y == yield_thread(tm1, K.cpu)
                                        K1 == [K EXCEPT
                                                 !.pipes[pipe_id].wait_queue =
                                                      Append(@, current_handle),
                                                 !.tm = y.tm]
                                    IN  IF ~y.scheduled
                                        THEN [K1 EXCEPT !.run = "halt"]
                                        ELSE ResumeAt(K1, y.cpu)
                          ELSE LET read_bytes == Front(pipe.buffer, len)
                               IN  ResumeNext(
                                     [K EXCEPT !.pipes[pipe_id].buffer = Rest(@, len),
                                               !.copied = read_bytes],
                                     encode_result(K.cpu, Len(read_bytes)))
                 ELSE ResumeNext(K, encode_result(K.cpu, U32Max))
            ELSE IF descriptor.kind = "file"
            THEN sys_read_file(K, fd, descriptor, len)
            ELSE ResumeNext(K, encode_result(K.cpu, U32Max))

sys_close(K, fd) ==
    LET current_handle == K.tm.current_thread
    IN  IF current_handle = None THEN [K EXCEPT !.run = "error"]
        ELSE
        LET closed_fd == Descriptor(K.tm.threads[current_handle], fd)
            tm1 == IF fd < Len(K.tm.threads[current_handle].file_descriptors)
                   THEN [K.tm EXCEPT
                           !.threads[current_handle].file_descriptors[fd + 1] = NoFd]
                   ELSE K.tm
            K1 == [K EXCEPT !.tm = tm1]
        IN  IF closed_fd.kind = "pipe"
            THEN LET pipe_id == closed_fd.pipe_id
                 IN  IF pipe_id \in DOMAIN K.pipes
                     THEN LET pipe == K.pipes[pipe_id]
                              to_wake == IF closed_fd.is_write THEN pipe.wait_queue ELSE <<>>
                              pipe1 == IF closed_fd.is_write
                                       THEN [pipe EXCEPT !.write_open = FALSE,
                                                         !.wait_queue = <<>>]
                                       ELSE [pipe EXCEPT !.read_open = FALSE]
                              should_remove == ~pipe1.read_open /\ ~pipe1.write_open
                          IN  ResumeNext(
                                [K1 EXCEPT
                                   !.pipes = IF should_remove
                                             THEN MapRemove(K.pipes, pipe_id)
                                             ELSE [K.pipes EXCEPT ![pipe_id] = pipe1],
                                   !.tm = WakeAll(tm1, to_wake)],
                                encode_result(K.cpu, 0))
                     ELSE ResumeNext(K1, encode_result(K.cpu, 0))
            ELSE IF closed_fd # NoFd
            THEN ResumeNext(K1, encode_result(K.cpu, 0))
            ELSE ResumeNext(K1, encode_result(K.cpu, U32Max))

(* ------------------------------- sockets ------------------------------ *)
\* The first index of table that holds None, 0 when there is none.
RECURSIVE first_free(_, _)
first_free(table, i) ==
    IF i > Len(table) THEN 0
    ELSE IF table[i] = NoFd THEN i
    ELSE first_free(table, i + 1)

\* sys_socket: create_socket, then the first free entry of the caller's
\* table is bound to the socket, the table growing when it has none.
sys_socket(K) ==
    LET current == K.tm.current_thread
        socket_id == K.next_socket_id
        K1 == [K EXCEPT !.next_socket_id = @ + 1]
    IN  IF current = None THEN [K1 EXCEPT !.run = "error"]
        ELSE
        LET table == K.tm.threads[current].file_descriptors
            i == first_free(table, 1)
        IN  IF i # 0
            THEN ResumeNext(
                   [K1 EXCEPT !.tm.threads[current].file_descriptors[i] =
                                  SocketFd(socket_id)],
                   encode_result(K.cpu, i - 1))
            ELSE ResumeNext(
                   [K1 EXCEPT !.tm.threads[current].file_descriptors =
                                  Append(@, SocketFd(socket_id))],
                   encode_result(K.cpu, Len(table)))

(* ---------------------------- trap dispatch --------------------------- *)
\* Syscall::from_registers followed by Kernel::handle_syscall.  buf is the
\* content of the user buffer a write names.
handle_syscall(K, buf) ==
    LET a7 == K.cpu.a7
        a0 == K.cpu.a0
        a2 == K.cpu.a2
    IN  CASE a7 = SYS_WRITE         -> sys_write(K, a0, buf)
          [] a7 = SYS_PIPE          -> sys_pipe(K)
          [] a7 = SYS_SOCKET        -> sys_socket(K)
          [] a7 = SYS_OPEN          -> sys_open(K, buf[1])
          [] a7 = SYS_EXEC          -> sys_exec(K, buf[1], buf[2])
          [] a7 = SYS_SBRK          -> sys_sbrk(K, a0)
          [] a7 = SYS_CLOSE         -> sys_close(K, a0)
          [] a7 = SYS_WAITPID       -> sys_waitpid(K, a0)
          [] a7 = SYS_READ          -> sys_read(K, a0, a2)
          [] a7 = SYS_EXIT          -> sys_exit(K, a0)
          [] a7 = SYS_YIELD         -> sys_thread_yield(K)
          [] a7 = SYS_THREAD_CREATE -> sys_thread_create(K)
          [] a7 = SYS_MUTEX_CREATE  -> sys_mutex_create(K)
          [] a7 = SYS_MUTEX_ACQUIRE -> sys_mutex_acquire(K, a0)
          [] a7 = SYS_MUTEX_RELEASE -> sys_mutex_release(K, a0)
          [] OTHER                  -> [K EXCEPT !.run = "error"]

\* Kernel::handle_trap: the kernel serves ECALLs and the timer interrupt; any
\* other cause is Err(TrapError::Unhandled(cause)), which ends the run.
handle_trap(K, cause, buf) ==
    LET K1 == [K EXCEPT !.tm = ensure_current_thread(K.tm, K.cpu)]
    IN  IF cause = "EnvironmentCall"
        THEN handle_syscall(K1, buf)
        ELSE IF cause = "TimerInterrupt"
        THEN LET y == yield_thread(K1.tm, K1.cpu)
             IN  ResumeAt([K1 EXCEPT !.tm = y.tm], y.cpu)
        ELSE [K1 EXCEPT !.run = "error"]

(* ------------------------------- machine ------------------------------ *)
\* VirtualMachine::new for VmConfig { timer_interval: Some(interval) }: the
\* counters of the run loop.  phase is the place in the loop body ("top"
\* before the timer check, "step" before the call of step) and timers lists
\* the values of instruction_count at which the timer interrupt was handed
\* to the trap handler.
VirtualMachine_new(interval) ==
    [timer_interval |-> interval,
     instruction_count |-> 0,
     next_timer_interrupt |-> interval,
     phase |-> "top",
     timers |-> <<>>]

\* timer_interval: Some(100), as Runtime::new configures the machine
TimerInterval == 100

\* if self.instruction_count >= self.next_timer_interrupt
timer_due_after(v) == v.instruction_count > v.next_timer_interrupt

timer_due(v) == v.instruction_count >= v.next_timer_interrupt

(* ------------------------------- state -------------------------------- *)
VARIABLES
    tm,             \* Kernel.thread_manager
    mutexes,        \* Kernel.mutexes
    next_mutex_id,  \* Kernel.next_mutex_id
    pipes,          \* Kernel.pipes
    next_pipe_id,   \* Kernel.next_pipe_id
    file_system,    \* Kernel.file_system is Some (a file system is mounted)
    cpu,            \* VirtualMachine.cpu
    run,            \* outcome of VirtualMachine::run so far
    inside,         \* history: per mutex, the threads inside its critical section
    pend,           \* history: per thread, the mutex whose acquire has not returned yet
    arrivals,       \* history: per mutex, the callers of mutex_acquire in call order
    grants,         \* history: per mutex, the threads made owner, in order
    written,        \* history: per pipe, the bytes accepted by writes
    readlog,        \* history: per pipe, the bytes returned by reads
    wclosed,        \* history: per pipe, whether its write end has been closed
    exited,         \* history: the threads that have called exit
    wpend,          \* history: per thread, the target of its waitpid that has not returned yet
    memory,         \* RAM: the words that differ from what init_memory left
    next_free_frame,\* memory::NEXT_FREE_FRAME, as a page number
    vm,             \* VirtualMachine: the counters of the run loop
    probe           \* a call of a function of the kernel or the machine, and its result

vars == <<tm, mutexes, next_mutex_id, pipes, next_pipe_id, file_system, cpu, run,
          inside, pend, arrivals, grants, written, readlog, wclosed, exited,
          wpend, memory, next_free_frame, vm, probe>>

\* The kernel, the CPU and the histories: everything but the probe.
kvars == <<tm, mutexes, next_mutex_id, pipes, next_pipe_id, file_system, cpu, run,
           inside, pend, arrivals, grants, written, readlog, wclosed, exited,
           wpend, memory, next_free_frame, vm>>

\* The kernel, the CPU, the histories and the memory.
svars == <<tm, mutexes, next_mutex_id, pipes, next_pipe_id, file_system, cpu, run,
           inside, pend, arrivals, grants, written, readlog, wclosed, exited,
           wpend, memory, next_free_frame>>

\* The kernel, the CPU and the histories without the memory.
cvars == <<tm, mutexes, next_mutex_id, pipes, next_pipe_id, file_system, cpu, run,
           inside, pend, arrivals, grants, written, readlog, wclosed, exited,
           wpend, vm>>

\* The memory as the kernel and the MMU are handed it.
MemoryNow == [base |-> BootRam, delta |-> memory,
              next_free_frame |-> next_free_frame]

\* No function is being probed.
NoProbe == [op |-> "none"]

Handles   == 1..(IF MaxThreads > MaxContenders THEN MaxThreads ELSE MaxContenders)
MutexIds  == 1..MaxMutexes
PipeIds   == 1..MaxPipes
FdArgs    == 2..(2 + 2 * MaxPipes + MaxOpen)
\* The kernel never inspects pipe data, so the model writes bytes that
\* identify themselves: the k-th byte ever written to a pipe has value k.
Payload(p, n) == [i \in 1..n |-> Len(written[p]) + i]

\* Argument registers are dead once the call is over: the guest reloads them
\* before its next ECALL.  They are kept only while the PC is still at the
\* ECALL, where the saved values are the ones the retry will decode.
Scrub(context) ==
    IF context.pc = "ecall" THEN context ELSE [context EXCEPT !.a7 = 0, !.a2 = 0]

\* The CPU as the timer interrupt finds it.  A thread that is still at an
\* ECALL has executed nothing and holds the registers it was resumed with;
\* otherwise user code has run and has consumed the result left in a0.
Interrupted(c) == IF c.pc = "ecall" THEN c ELSE [c EXCEPT !.a0 = 0]

ScrubAll(K) ==
    [K EXCEPT !.cpu = Scrub(@),
              !.tm.threads = [h \in DOMAIN @ |-> [@[h] EXCEPT !.context = Scrub(@)]]]

KernelInitCore(K) ==
    /\ tm = K.tm
    /\ mutexes = K.mutexes
    /\ next_mutex_id = K.next_mutex_id
    /\ pipes = K.pipes
    /\ next_pipe_id = K.next_pipe_id
    /\ file_system = K.file_system
    /\ cpu = K.cpu
    /\ run = K.run
    /\ next_free_frame = K.memory.next_free_frame

KernelInit(K) ==
    /\ KernelInitCore(K)
    /\ memory = K.memory.delta

\* Runtime::load_program either only sets the entry PC (the main thread is then
\* created lazily on the first trap) or calls Kernel::bootstrap_process.
LazyBoot == Kernel_new

BootstrapBoot ==
    LET b == bootstrap_process(ThreadManager_new, Memory_booted)
    IN  [Kernel_new EXCEPT !.tm = b.tm,
                           !.memory = b.memory,
                           !.cpu = [Cpu_new EXCEPT !.a0 = Argc, !.satp = b.satp,
                                                    !.mode = "User"]]

\* Kernel::init_memory: the disk is mounted when one with a valid superblock
\* is attached; a failed mount is only logged.
Mounted(K, mounted) == [K EXCEPT !.file_system = mounted]

BootKernel(mounted) ==
    \/ KernelInit(Mounted(LazyBoot, mounted))
    \/ KernelInit(Mounted(BootstrapBoot, mounted))

\* Between two traps the guest runs any number of instructions: where only
\* the traps are followed, the counters of the run loop stay as
\* VirtualMachine::new left them and the timer interrupt may come at any trap.
Boot(mounted) ==
    /\ BootKernel(mounted)
    /\ vm = VirtualMachine_new(TimerInterval)

HistoryInit ==
    /\ inside = [m \in MutexIds |-> {}]
    /\ pend = [h \in Handles |-> None]
    /\ arrivals = [m \in MutexIds |-> <<>>]
    /\ grants = [m \in MutexIds |-> <<>>]
    /\ written = [p \in PipeIds |-> <<>>]
    /\ readlog = [p \in PipeIds |-> <<>>]
    /\ wclosed = [p \in PipeIds |-> FALSE]
    /\ exited = {}
    /\ wpend = [h \in Handles |-> None]

\* A machine without a disk.
Init == Boot(FALSE) /\ HistoryInit /\ probe = NoProbe

\* A machine with or without a mounted disk.
InitDisk == (\E mounted \in BOOLEAN : Boot(mounted)) /\ HistoryInit /\ probe = NoProbe

(* ------------------------------ one trap ------------------------------ *)
\* The thread a trap is served for: the current thread, or the main thread
\* ensure_current_thread is about to create.
Caller == ensure_current_thread(tm, cpu).current_thread

CallerFd(fd) ==
    LET t == ensure_current_thread(tm, cpu)
    IN  Descriptor(t.threads[t.current_thread], fd)

\* History of mutex m after thread c trapped with (a7, a0) and the kernel
\* went from its state before to K.
InsideAfter(K, c, a7, a0) ==
    LET p1 == IF a7 = SYS_MUTEX_ACQUIRE /\ a0 \in MutexIds
              THEN [pend EXCEPT ![c] = a0]
              ELSE IF a7 = SYS_EXIT THEN [pend EXCEPT ![c] = None] ELSE pend
        i1 == IF a7 = SYS_MUTEX_RELEASE /\ a0 \in MutexIds
              THEN [inside EXCEPT ![a0] = @ \ {c}]
              ELSE IF a7 = SYS_EXIT THEN [m \in MutexIds |-> inside[m] \ {c}]
              ELSE inside
        r  == K.tm.current_thread
        resumes == K.run = "running" /\ r # None /\ p1[r] # None
    IN  [pend   |-> IF resumes THEN [p1 EXCEPT ![r] = None] ELSE p1,
         inside |-> IF resumes /\ K.cpu.a0 = 0 /\ K.cpu.pc = "user"
                    THEN [i1 EXCEPT ![p1[r]] = @ \cup {r}] ELSE i1]

GrantsAfter(K) ==
    [m \in MutexIds |->
        IF m \in DOMAIN K.mutexes /\ m \in DOMAIN mutexes
           /\ K.mutexes[m].owner # None
           /\ (\/ K.mutexes[m].owner # mutexes[m].owner
               \/ Len(K.mutexes[m].wait_queue) < Len(mutexes[m].wait_queue))
        THEN Append(grants[m], K.mutexes[m].owner)
        ELSE grants[m]]

\* The waitpid calls still in progress after thread c trapped with (a7, a0)
\* and the kernel went to K: the call of c is in progress from its trap until
\* c is given the CPU again, which is when the call returns to it.
WaitsAfter(K, c, a7, a0) ==
    LET w1 == IF a7 = SYS_WAITPID THEN [wpend EXCEPT ![c] = a0]
              ELSE IF a7 = SYS_EXIT THEN [wpend EXCEPT ![c] = None]
              ELSE wpend
        r  == K.tm.current_thread
    IN  IF K.run = "running" /\ r # None /\ w1[r] # None
        THEN [w1 EXCEPT ![r] = None]
        ELSE w1

\* The kernel record the handler starts from.
\* SOCKETS.next_id, which SocketTable::new sets to 1: followed where sockets
\* are created.
SocketsNow == IF probe.op = "sockets" THEN probe.next_id ELSE 1

KernelNow(cpu_in) ==
    [tm |-> tm, mutexes |-> mutexes, next_mutex_id |-> next_mutex_id,
     pipes |-> pipes, next_pipe_id |-> next_pipe_id,
     file_system |-> file_system,
     memory |-> MemoryNow,
     cpu |-> cpu_in, run |-> run, copied |-> <<>>,
     next_socket_id |-> SocketsNow]

TrapCore(cause, a7, a0, a2, buf) ==
    /\ run = "running"
    /\ cause = "EnvironmentCall" /\ cpu.pc = "ecall"
          => (cpu.a7 = a7 /\ cpu.a0 = a0 /\ cpu.a2 = a2)
    /\ \E c \in {Caller}, d \in {CallerFd(a0)} :
       \E K \in {ScrubAll(handle_trap(
                    KernelNow(IF cause = "EnvironmentCall"
                              THEN [cpu EXCEPT !.pc = "ecall", !.a7 = a7,
                                               !.a0 = a0, !.a2 = a2]
                              ELSE Interrupted(cpu)),
                    cause, buf))} :
       \E returned \in {/\ cause = "EnvironmentCall" /\ K.run = "running"
                        /\ K.tm.current_thread = c /\ K.cpu.pc = "user"},
          h \in {InsideAfter(K, c, a7, a0)} :
           /\ tm' = K.tm
           /\ mutexes' = K.mutexes
           /\ next_mutex_id' = K.next_mutex_id
           /\ pipes' = K.pipes
           /\ next_pipe_id' = K.next_pipe_id
           /\ file_system' = K.file_system
           /\ cpu' = K.cpu
           /\ run' = K.run
           /\ memory' = K.memory.delta
           /\ next_free_frame' = K.memory.next_free_frame
           /\ inside' = h.inside
           /\ pend' = h.pend
           /\ arrivals' = IF a7 = SYS_MUTEX_ACQUIRE /\ a0 \in DOMAIN mutexes
                          THEN [arrivals EXCEPT ![a0] = Append(@, c)]
                          ELSE arrivals
           /\ grants' = GrantsAfter(K)
           /\ written' = IF a7 = SYS_WRITE /\ d.kind = "pipe" /\ d.is_write
                            /\ returned /\ K.cpu.a0 # U32Max
                         THEN [written EXCEPT ![d.pipe_id] = @ \o buf]
                         ELSE written
           /\ readlog' = IF a7 = SYS_READ /\ d.kind = "pipe" /\ ~d.is_write
                            /\ returned /\ K.cpu.a0 # U32Max
                         THEN [readlog EXCEPT ![d.pipe_id] = @ \o K.copied]
                         ELSE readlog
           /\ wclosed' = [p \in PipeIds |->
                            \/ wclosed[p]
                            \/ /\ p \in DOMAIN pipes /\ pipes[p].write_open
                               /\ (p \notin DOMAIN K.pipes \/ ~K.pipes[p].write_open)]
           /\ exited' = IF a7 = SYS_EXIT THEN exited \cup {c} ELSE exited
           /\ wpend' = WaitsAfter(K, c, a7, a0)

Trap(cause, a7, a0, a2, buf) ==
    TrapCore(cause, a7, a0, a2, buf) /\ UNCHANGED <<vm, probe>>

Ecall(a7, a0, a2, buf) == Trap("EnvironmentCall", a7, a0, a2, buf)

(* ------------------------------ actions ------------------------------- *)
TimerInterrupt == Trap("TimerInterrupt", 0, 0, 0, <<>>)

ThreadCreateUpTo(n) ==
    /\ ensure_current_thread(tm, cpu).next_handle <= n
    /\ Ecall(SYS_THREAD_CREATE, 0, 0, <<>>)

ThreadCreate == ThreadCreateUpTo(MaxThreads)

SpawnContender == ThreadCreateUpTo(MaxContenders)

ThreadYield == Ecall(SYS_YIELD, 0, 0, <<>>)

Exit == \E code \in ExitCodes : Ecall(SYS_EXIT, code, 0, <<>>)

WaitPid == \E pid \in Handles : Ecall(SYS_WAITPID, pid, 0, <<>>)

MutexCreate ==
    /\ next_mutex_id <= MaxMutexes
    /\ Ecall(SYS_MUTEX_CREATE, 0, 0, <<>>)

RECURSIVE SumLen(_, _)
SumLen(f, S) ==
    IF S = {} THEN 0
    ELSE LET x == CHOOSE y \in S : TRUE IN Len(f[x]) + SumLen(f, S \ {x})

\* The calls of mutex_acquire made so far, over all mutexes.
Acquisitions == SumLen(arrivals, MutexIds)

MutexAcquire ==
    \E id \in MutexIds :
        /\ Acquisitions < MaxAcquire
        /\ Ecall(SYS_MUTEX_ACQUIRE, id, 0, <<>>)

MutexRelease == \E id \in MutexIds : Ecall(SYS_MUTEX_RELEASE, id, 0, <<>>)

PipeCreate ==
    /\ next_pipe_id <= MaxPipes
    /\ Ecall(SYS_PIPE, 0, 0, <<>>)

FileWrite ==
    \E fd \in FdArgs, len \in 0..MaxLen :
        LET d == CallerFd(fd)
        IN  IF d.kind = "pipe"
            THEN /\ Len(written[d.pipe_id]) + len <= MaxWritten
                 /\ Ecall(SYS_WRITE, fd, len, Payload(d.pipe_id, len))
            ELSE Ecall(SYS_WRITE, fd, len, [i \in 1..len |-> 0])

FileRead == \E fd \in FdArgs, len \in 0..MaxLen : Ecall(SYS_READ, fd, len, <<>>)

FileClose == \E fd \in FdArgs : Ecall(SYS_CLOSE, fd, 0, <<>>)

\* The control block of the thread a trap is served for.
CallerTcb == ensure_current_thread(tm, cpu).threads[Caller]

FileOpen ==
    \E path \in Paths :
        /\ Len(CallerTcb.file_descriptors) < Len(Reserved3) + MaxOpen
        /\ Ecall(SYS_OPEN, 0, 0, <<path>>)

ExecUpTo(n) ==
    \E path \in Paths, args_len \in 0..Argc :
        /\ ensure_current_thread(tm, cpu).next_handle <= n
        /\ Ecall(SYS_EXEC, 0, 0, <<path, args_len>>)

Exec == ExecUpTo(MaxThreads)

LoadContender == ExecUpTo(MaxContenders)

\* The breaks a thread may reach: up to MaxGrow pages above a heap start.
BreakRange ==
    {b + k * PAGE_SIZE : b \in {DefaultBreak, heap_start}, k \in 0..MaxGrow}

\* The frames sbrk has taken: those handed out since the kernel was set up
\* that did not go into the address space of a loaded program.
LoadFrames == load_program(Memory_booted).M.next_free_frame
              - Memory_booted.next_free_frame
UserSpaces == {tm.threads[h].context.satp : h \in DOMAIN tm.threads} \ {KernelSatp}
HeapFrames == next_free_frame - Memory_booted.next_free_frame
              - LoadFrames * Cardinality(UserSpaces)

Sbrk ==
    \E k \in {-1, 0, 1} :
        /\ CallerTcb.program_break + k * PAGE_SIZE \in BreakRange
        /\ HeapFrames < MaxFrames
        /\ Ecall(SYS_SBRK, k * PAGE_SIZE, 0, <<>>)

Next ==
    \/ TimerInterrupt
    \/ ThreadCreate
    \/ ThreadYield
    \/ Exit
    \/ WaitPid
    \/ MutexCreate
    \/ MutexAcquire
    \/ MutexRelease
    \/ PipeCreate
    \/ FileWrite
    \/ FileRead
    \/ FileClose
    \/ FileOpen
    \/ Exec
    \/ Sbrk

Spec == InitDisk /\ [][Next]_vars

\* Threads and mutexes only.
NextMutex ==
    \/ TimerInterrupt
    \/ ThreadCreate
    \/ ThreadYield
    \/ Exit
    \/ WaitPid
    \/ MutexCreate
    \/ MutexAcquire
    \/ MutexRelease

SpecMutex == Init /\ [][NextMutex]_vars

\* Mutex contention among up to MaxContenders threads under preemption.
NextFifo ==
    \/ TimerInterrupt
    \/ SpawnContender
    \/ MutexCreate
    \/ MutexAcquire
    \/ MutexRelease

SpecFifo == Init /\ [][NextFifo]_vars

\* Pipes shared by threads under preemption.
NextPipe ==
    \/ TimerInterrupt
    \/ ThreadCreate
    \/ PipeCreate
    \/ FileWrite
    \/ FileRead
    \/ FileClose

SpecPipe == Init /\ [][NextPipe]_vars

\* Files, programs on disk and the heap, used by threads under preemption.
NextDisk ==
    \/ TimerInterrupt
    \/ ThreadCreate
    \/ FileOpen
    \/ FileRead
    \/ FileWrite
    \/ FileClose
    \/ Exec
    \/ Sbrk

SpecDisk == InitDisk /\ [][NextDisk]_vars

\* Pipes and files side by side in the descriptor tables of threads, with no
\* timer interval configured.
NextFiles ==
    \/ ThreadCreate
    \/ PipeCreate
    \/ FileOpen
    \/ FileRead
    \/ FileWrite
    \/ FileClose

SpecFiles == InitDisk /\ [][NextFiles]_vars

\* Threads and processes that are created and exit, under preemption.
NextSpawn ==
    \/ TimerInterrupt
    \/ SpawnContender
    \/ LoadContender
    \/ Exit

SpecSpawn == InitDisk /\ [][NextSpawn]_vars

\* Thread life cycle among up to MaxContenders threads under preemption.
NextSched ==
    \/ TimerInterrupt
    \/ SpawnContender
    \/ ThreadYield
    \/ Exit
    \/ WaitPid

SpecSched == Init /\ [][NextSched]_vars

\* The kernel after a timer interrupt taken in the current state.
TimerStep ==
    ScrubAll(handle_trap(KernelNow(Interrupted(cpu)), "TimerInterrupt", <<>>))

\* ENABLED <<TimerInterrupt>>_vars as a state predicate: the run lasts and the
\* interrupt would change the state.
TimerArmed ==
    /\ run = "running"
    /\ LET K == TimerStep
           h == InsideAfter(K, Caller, 0, 0)
       IN  <<K.tm, K.cpu, K.run, h.inside, h.pend, WaitsAfter(K, Caller, 0, 0)>>
             # <<tm, cpu, run, inside, pend, wpend>>

\* The same with a timer interval configured: VirtualMachine::run raises the
\* timer interrupt every interval instructions for as long as the run lasts.
\* The condition is WF_vars(TimerInterrupt) with its ENABLED written out.
TimerFairness == []<>(~TimerArmed) \/ []<><<TimerInterrupt>>_vars

SpecSchedTimer == SpecSched /\ TimerFairness

(* ============================== claims ================================ *)
IsPrefix(s, t) == Len(s) <= Len(t) /\ SubSeq(t, 1, Len(s)) = s

StateOf(h) == tm.threads[h].state.tag

InQueue(h) == \E i \in 1..Len(tm.ready_queue) : tm.ready_queue[i] = h

\* C1: for every mutex, at most one thread is inside its critical section
\* (from the return of mutex_acquire with 0 until the thread's mutex_release).
C1_MutualExclusion == \A m \in MutexIds : Cardinality(inside[m]) <= 1

\* C2: for every mutex, the threads made owner are, in order, the callers of
\* mutex_acquire in call order: the n-th owner is the n-th arrival.
C2_FifoOwnership == \A m \in MutexIds : IsPrefix(grants[m], arrivals[m])

\* Three different threads arrived, the second was handed the mutex by the
\* release of the first while the third is still queued behind it.
C2_Witness ==
    \E m \in DOMAIN mutexes :
        /\ Len(arrivals[m]) = 3
        /\ Cardinality({arrivals[m][i] : i \in 1..3}) = 3
        /\ Len(grants[m]) = 2
        /\ mutexes[m].owner = arrivals[m][2]
        /\ mutexes[m].wait_queue = <<arrivals[m][3]>>

\* C4: while the run goes on, the thread the CPU executes is never Blocked
\* or Waiting.
C4_BlockedNeverRuns ==
    (run = "running" /\ tm.current_thread # None)
        => StateOf(tm.current_thread) \notin {"Blocked", "Waiting"}

\* C5: while the run goes on, no mutex is owned by a Terminated thread.
C5_NoTerminatedOwner ==
    run = "running" =>
        \A m \in DOMAIN mutexes :
            mutexes[m].owner # None => StateOf(mutexes[m].owner) # "Terminated"

\* C6: a thread that has exited stays Terminated, is not in the ready queue
\* and is never the current thread again.
C6_ExitedNeverScheduled ==
    \A h \in exited :
        /\ StateOf(h) = "Terminated"
        /\ ~InQueue(h)
        /\ tm.current_thread # h

\* C7: at most one thread control block is Running.
C7_AtMostOneRunning ==
    Cardinality({h \in DOMAIN tm.threads : StateOf(h) = "Running"}) <= 1

\* A context switch has happened: the second thread runs, the first is Ready.
C7_Witness ==
    /\ 2 \in DOMAIN tm.threads
    /\ StateOf(2) = "Running" /\ tm.current_thread = 2
    /\ StateOf(1) = "Ready" /\ InQueue(1)

\* C8: no thread whose state is Running has its handle in the ready queue.
C8_RunningNotQueued ==
    \A h \in DOMAIN tm.threads : StateOf(h) = "Running" => ~InQueue(h)

\* C9: for every pipe, the bytes read so far are a prefix of the bytes
\* written so far.
C9_PipeFifo == \A p \in PipeIds : IsPrefix(readlog[p], written[p])

\* Two reads have returned the bytes of the pipe, one byte each.
C9_Witness ==
    \E p \in PipeIds :
        /\ Len(readlog[p]) = 2
        /\ Len(written[p]) = 2
        /\ p \in DOMAIN pipes /\ pipes[p].buffer = <<>>

\* The bytes of pipe p written and not yet read.
Unread(p) == SubSeq(written[p], Len(readlog[p]) + 1, Len(written[p]))

\* C10: a read on the read end of a pipe whose write end has been closed
\* returns at once the next unread bytes (none, with result 0, when the pipe
\* is drained): it neither blocks nor fails.
C10_ReadAfterClose ==
    [][\A fd \in FdArgs, len \in 0..MaxLen :
         (/\ CallerFd(fd).kind = "pipe" /\ ~CallerFd(fd).is_write
          /\ wclosed[CallerFd(fd).pipe_id]
          /\ Ecall(SYS_READ, fd, len, <<>>))
         => (/\ run' = "running"
             /\ tm'.current_thread = Caller
             /\ cpu'.pc = "user"
             /\ cpu'.a0 = Len(Front(Unread(CallerFd(fd).pipe_id), len))
             /\ readlog'[CallerFd(fd).pipe_id] =
                   readlog[CallerFd(fd).pipe_id]
                      \o Front(Unread(CallerFd(fd).pipe_id), len))]_vars

Queued(h, m) ==
    /\ m \in DOMAIN mutexes
    /\ \E i \in 1..Len(mutexes[m].wait_queue) : mutexes[m].wait_queue[i] = h

Holds(h, m) ==
    /\ m \in DOMAIN mutexes /\ mutexes[m].owner = h
    /\ run = "running" /\ tm.current_thread = h /\ cpu.pc = "user"

AllFree == \A m \in DOMAIN mutexes : mutexes[m].owner = None

\* Every thread that becomes owner of a mutex eventually releases it.  A run
\* makes at most MaxAcquire calls of mutex_acquire per mutex, so every tenure
\* ends exactly when, from some point on, no mutex has an owner.
OwnersRelease == <>[]AllFree

\* C3: if every owner eventually releases, every thread that waits in
\* mutex_acquire(m) eventually owns m and runs again after the call.  No
\* fairness is assumed of the timer, so this holds in particular for the runs
\* in which timer interrupts keep occurring.
C3_NoStarvation ==
    OwnersRelease =>
        \A h \in Handles, m \in MutexIds : Queued(h, m) ~> Holds(h, m)

\* A thread that had to wait was handed the mutex and runs as its owner.
C3_Witness ==
    \E m \in DOMAIN mutexes :
        /\ Len(grants[m]) >= 2
        /\ grants[m][Len(grants[m])] # grants[m][1]
        /\ Holds(grants[m][Len(grants[m])], m)
        /\ StateOf(tm.current_thread) = "Running"

(* ------------------------- scheduling order --------------------------- *)
\* C11: the ready queue is served in FIFO order.  Every step of the kernel
\* leaves the entries that wait in the queue in place and in order: either
\* nothing is removed and the old queue is a prefix of the new one, or exactly
\* the head is removed, the thread it names becomes the current thread, and
\* the rest of the old queue is a prefix of the new one.  Hence a thread that
\* precedes another in the queue is selected before it.
C11_ReadyQueueFifo ==
    [][\/ IsPrefix(tm.ready_queue, tm'.ready_queue)
       \/ /\ tm.ready_queue # <<>>
          /\ IsPrefix(Tail(tm.ready_queue), tm'.ready_queue)
          /\ tm'.current_thread = Head(tm.ready_queue)]_vars

\* Thread 2 was queued ahead of thread 3 and has been selected first; the
\* preempted main thread went to the tail.
C11_Witness ==
    /\ run = "running"
    /\ tm.current_thread = 2
    /\ tm.ready_queue = <<3, 1>>

\* C12: with a timer interval configured, a thread that is Ready while the
\* run lasts eventually becomes Running (or the run ends).  While it is Ready
\* it has an entry in the ready queue, so by C11 each scheduling decision moves
\* it one place towards the head and the decision that finds it at the head
\* runs it.
HasState(h, tag) == IF h \in DOMAIN tm.threads THEN StateOf(h) = tag ELSE FALSE

ReadyQueued == \A h \in Handles : HasState(h, "Ready") => InQueue(h)

WokenWith(h, code) ==
    \/ /\ tm'.threads[h].state = Ready
       /\ \E i \in 1..Len(tm'.ready_queue) : tm'.ready_queue[i] = h
       /\ tm'.threads[h].context.a0 = code
    \/ /\ tm'.current_thread = h
       /\ tm'.threads[h].state = Running
       /\ cpu'.a0 = code

\* C13: when a thread T exits with code c, every thread that is Waiting on T
\* still has its waitpid(T) call in progress, becomes Ready and is enqueued in
\* that step, and finds c in a0 when it runs next, so that its waitpid(T)
\* call returns c.
C13_ExitWakesWaiters ==
    [][\A code \in ExitCodes :
          Ecall(SYS_EXIT, code, 0, <<>>) =>
             \A h \in Handles :
                HasState(h, "Waiting") /\ tm.threads[h].state.target = Caller
                   => wpend[h] = Caller /\ WokenWith(h, code)]_vars

(* -------------------------------- exit -------------------------------- *)
\* No thread other than h is Ready or is waiting for h to exit.
NoOtherRunnable(h) ==
    \A o \in Handles \ {h} :
        /\ ~HasState(o, "Ready")
        /\ ~(HasState(o, "Waiting") /\ tm.threads[o].state.target = h)

\* C14: when a thread calls exit and no other thread is Ready (nor becomes
\* Ready by that exit), the trap handler returns Halt and the run ends; in
\* particular the exit of the only thread, the one process bootstrap created,
\* halts the run.
C14_LastExitHalts ==
    [][\A code \in ExitCodes :
          NoOtherRunnable(Caller) /\ Ecall(SYS_EXIT, code, 0, <<>>)
             => run' = "halt"]_vars

(* -------------------------- who runs next ----------------------------- *)
\* The trap was served and control is back with the thread that trapped,
\* after its ECALL.
ReturnedToCaller ==
    /\ run' = "running"
    /\ tm'.current_thread = Caller
    /\ cpu'.pc = "user"

\* The traps that may give the CPU to another thread: the timer interrupt,
\* yield, exit, mutex_acquire on a held mutex, waitpid on a thread that has
\* not terminated, and read on an empty pipe whose write end is open.
Suspending ==
    \/ TimerInterrupt
    \/ ThreadYield
    \/ Exit
    \/ \E id \in MutexIds :
          /\ id \in DOMAIN mutexes /\ mutexes[id].owner # None
          /\ Ecall(SYS_MUTEX_ACQUIRE, id, 0, <<>>)
    \/ \E pid \in Handles :
          /\ pid \in DOMAIN tm.threads /\ StateOf(pid) # "Terminated"
          /\ Ecall(SYS_WAITPID, pid, 0, <<>>)
    \/ \E fd \in FdArgs, len \in 0..MaxLen :
          /\ CallerFd(fd).kind = "pipe" /\ ~CallerFd(fd).is_write
          /\ CallerFd(fd).pipe_id \in DOMAIN pipes
          /\ pipes[CallerFd(fd).pipe_id].buffer = <<>>
          /\ pipes[CallerFd(fd).pipe_id].write_open
          /\ Ecall(SYS_READ, fd, len, <<>>)

\* C15: the current thread changes only during the suspending traps; every
\* other syscall returns control to the thread that issued it.
C15_OnlySuspendingTrapsSwitch == [][ReturnedToCaller \/ Suspending]_vars

(* --------------------------- thread_create ---------------------------- *)
\* The thread manager as the handler of the trap finds it.
PreTm == ensure_current_thread(tm, cpu)

\* The thread made by this step has its creator's satp, program break and
\* descriptor table as they are at the call.
CreatorCopied ==
    \A h \in DOMAIN tm'.threads \ DOMAIN PreTm.threads :
        /\ tm'.threads[h].context.satp = PreTm.threads[Caller].context.satp
        /\ tm'.threads[h].program_break = PreTm.threads[Caller].program_break
        /\ tm'.threads[h].file_descriptors = PreTm.threads[Caller].file_descriptors

\* The step leaves the break and the descriptor table of every thread other
\* than the one that trapped as they were.
OthersKept ==
    \A h \in DOMAIN tm.threads \ {Caller} :
        /\ tm'.threads[h].program_break = tm.threads[h].program_break
        /\ tm'.threads[h].file_descriptors = tm.threads[h].file_descriptors

\* C16: thread_create gives the new thread a copy of the creator's satp,
\* program break and descriptor table; afterwards no open, close, read or sbrk
\* of one thread changes the break or the descriptor table of another.
C16_ThreadCreateCopies ==
    [][(ThreadCreate => CreatorCopied) /\ OthersKept]_vars

\* Threads 1 and 2 share an address space, so one was made from the other by
\* thread_create, and have since come to differ in break and descriptors.
C16_Witness ==
    /\ {1, 2} \subseteq DOMAIN tm.threads
    /\ tm.threads[1].context.satp = tm.threads[2].context.satp
    /\ tm.threads[1].program_break # tm.threads[2].program_break
    /\ tm.threads[1].file_descriptors # tm.threads[2].file_descriptors
    /\ Len(tm.threads[2].file_descriptors) > Len(Reserved3)

(* ------------------------------ handles ------------------------------- *)
\* The handles issued so far are 1 .. next_handle - 1, each with its control
\* block, whatever the state of the thread.
HandlesIssued ==
    /\ tm.next_handle >= 1
    /\ DOMAIN tm.threads = 1..(tm.next_handle - 1)

\* The step issues a handle: to the main thread made on the first trap, or
\* as the result of a thread_create or of an exec that succeeded.
IssuedBy(h) ==
    \/ tm.current_thread = None /\ h = Caller
    \/ /\ SpawnContender \/ (LoadContender /\ run' = "running")
       /\ h = cpu'.a0

\* C17: every handle issued (to the lazily created main thread, by
\* thread_create, by exec or by bootstrap) is non-zero and differs from every
\* handle issued earlier, whether or not that thread has terminated: issued
\* handles stay taken, and a handle a step issues is not among them.
C17_HandlesFresh ==
    /\ []HandlesIssued
    /\ [][/\ DOMAIN tm.threads \subseteq DOMAIN tm'.threads
          /\ \A h \in Handles \cup {None, U32Max} :
                IssuedBy(h) => /\ h # None
                               /\ h \notin DOMAIN tm.threads
                               /\ h \in DOMAIN tm'.threads]_vars

\* Handle 3 has been issued while the thread of an earlier handle is
\* Terminated.
C17_Witness ==
    /\ 3 \in DOMAIN tm.threads
    /\ \E h \in {1, 2} : StateOf(h) = "Terminated"
    /\ StateOf(3) = "Ready"
    /\ tm.threads[3].context.pc = "entry"

(* --------------------------- failing syscalls ------------------------- *)
\* The guest can issue this syscall now: the run lasts, and a thread whose
\* PC was left at an ECALL traps with the registers of that ECALL.
CanEcall(a7, a0, a2) ==
    /\ run = "running"
    /\ cpu.pc = "ecall" => (cpu.a7 = a7 /\ cpu.a0 = a0 /\ cpu.a2 = a2)

\* The kernel after this syscall, issued in the current state.
EcallStep(a7, a0, a2, buf) ==
    ScrubAll(handle_trap(
        KernelNow([cpu EXCEPT !.pc = "ecall", !.a7 = a7, !.a0 = a0, !.a2 = a2]),
        "EnvironmentCall", buf))

\* The syscall failed as a syscall: u32::MAX is in a0, the caller resumes
\* after its ECALL and the run goes on.
FailedToCaller(K) ==
    /\ K.run = "running"
    /\ K.tm.current_thread = Caller
    /\ K.cpu.pc = "user"
    /\ K.cpu.a0 = U32Max

\* The buffer a write of len bytes to fd passes.
WriteBuf(fd, len) ==
    IF CallerFd(fd).kind = "pipe"
    THEN Payload(CallerFd(fd).pipe_id, len)
    ELSE [i \in 1..len |-> 0]

\* fd is no descriptor the caller can read from: unbound, or a write end.
BadRead(fd) ==
    \/ CallerFd(fd).kind = "none"
    \/ CallerFd(fd).kind = "pipe" /\ CallerFd(fd).is_write

\* fd is no descriptor the caller can write to: unbound (and not the console
\* on 1 and 2), a file, a read end, or a pipe whose read end is closed.
BadWrite(fd) ==
    \/ CallerFd(fd).kind = "none" /\ fd \notin {1, 2}
    \/ CallerFd(fd).kind = "file"
    \/ CallerFd(fd).kind = "pipe" /\ ~CallerFd(fd).is_write
    \/ /\ CallerFd(fd).kind = "pipe" /\ CallerFd(fd).is_write
       /\ \/ CallerFd(fd).pipe_id \notin DOMAIN pipes
          \/ ~pipes[CallerFd(fd).pipe_id].read_open

NoThreadMade(K) == DOMAIN K.tm.threads = DOMAIN PreTm.threads

\* C19: when no file system is mounted or the named file does not exist, open
\* and exec both fail as syscall errors: u32::MAX is returned in a0 to the
\* calling thread, no thread is created and the run goes on.
C19_MissingFileFails ==
    \A path \in Paths, args_len \in 0..Argc :
        (~file_system \/ path \notin Files) /\ CanEcall(SYS_OPEN, 0, 0)
           => /\ FailedToCaller(EcallStep(SYS_OPEN, 0, 0, <<path>>))
              /\ NoThreadMade(EcallStep(SYS_OPEN, 0, 0, <<path>>))
              /\ FailedToCaller(EcallStep(SYS_EXEC, 0, 0, <<path, args_len>>))
              /\ NoThreadMade(EcallStep(SYS_EXEC, 0, 0, <<path, args_len>>))

\* Serving the file named path from the mounted disk, starting at offset for
\* len bytes, runs into a file-system error: its inode id is out of range or
\* its data cannot be read.
DiskError(inode_id, offset, len) ==
    \/ read_inode(inode_id).res = "error"
    \/ read_data(read_inode(inode_id).inode, offset, len).res = "error"

\* C20: a file-system error that occurs while a read on an opened file or an
\* exec is served is reported to the calling thread as u32::MAX in a0 and
\* does not end the run.
C20_DiskErrorFails ==
    /\ \A fd \in FdArgs, len \in 0..MaxLen :
          /\ file_system /\ CanEcall(SYS_READ, fd, len)
          /\ CallerFd(fd).kind = "file"
          /\ DiskError(CallerFd(fd).inode_id, CallerFd(fd).offset, len)
          => FailedToCaller(EcallStep(SYS_READ, fd, len, <<>>))
    /\ \A path \in Files, args_len \in 0..Argc :
          /\ file_system /\ CanEcall(SYS_EXEC, 0, 0)
          /\ DiskError(Inode(path).inode_id, 0, Inode(path).size)
          => FailedToCaller(EcallStep(SYS_EXEC, 0, 0, <<path, args_len>>))

(* --------------------------- mutex_release ---------------------------- *)
\* The caller does not own mutex id: the mutex does not exist, is free or is
\* owned by another thread.
NotOwner(id) ==
    IF id \in DOMAIN mutexes THEN mutexes[id].owner # Caller ELSE TRUE

\* The trap woke no thread: every thread is in the state it was in and the
\* ready queue is as it was.
NoThreadWoken(K) ==
    /\ DOMAIN K.tm.threads = DOMAIN PreTm.threads
    /\ \A h \in DOMAIN PreTm.threads : K.tm.threads[h].state = PreTm.threads[h].state
    /\ K.tm.ready_queue = PreTm.ready_queue

\* C30: in every state, mutex_release(id) by a thread that does not own the
\* mutex (it is free, owned by another thread, or does not exist) returns
\* u32::MAX to the caller, leaves every mutex's owner and wait queue as they
\* were and wakes no thread.
C30_ReleaseByNonOwnerFails ==
    \A id \in 0..(MaxMutexes + 1) :
        CanEcall(SYS_MUTEX_RELEASE, id, 0) /\ NotOwner(id)
           => /\ FailedToCaller(EcallStep(SYS_MUTEX_RELEASE, id, 0, <<>>))
              /\ EcallStep(SYS_MUTEX_RELEASE, id, 0, <<>>).mutexes = mutexes
              /\ NoThreadWoken(EcallStep(SYS_MUTEX_RELEASE, id, 0, <<>>))

\* A thread that does not own mutex 1 has just been refused: the mutex is
\* still owned by another thread, a waiter is still queued, and the caller
\* runs on with u32::MAX in a0.
C30_Witness ==
    /\ run = "running"
    /\ 1 \in DOMAIN mutexes
    /\ mutexes[1].owner \notin {None, tm.current_thread}
    /\ mutexes[1].wait_queue # <<>>
    /\ tm.current_thread # None
    /\ cpu.pc = "user" /\ cpu.a0 = U32Max

(* ------------------------------ read_data ----------------------------- *)
\* The bytes the 12 direct and 128 indirect blocks of an inode can hold.
MaxFileBytes == (INODE_DIRECT_POINTERS + BLOCK_SIZE \div 4) * BLOCK_SIZE

\* File sizes, offsets and buffer lengths around the block, direct-pointer
\* and indirect-block boundaries.
FileSizes ==
    {0, 1, BLOCK_SIZE - 1, BLOCK_SIZE, BLOCK_SIZE + 1,
     INODE_DIRECT_POINTERS * BLOCK_SIZE + 1, MaxFileBytes, MaxFileBytes + 1,
     MaxFileBytes + BLOCK_SIZE}

ReadOffsets ==
    {0, 1, BLOCK_SIZE - 1, BLOCK_SIZE, INODE_DIRECT_POINTERS * BLOCK_SIZE - 1,
     INODE_DIRECT_POINTERS * BLOCK_SIZE, MaxFileBytes - 1, MaxFileBytes,
     MaxFileBytes + 1}

ReadLens == {0, 1, MaxLen, BLOCK_SIZE, BLOCK_SIZE + 1}

\* An inode of this size on the disk: with every block allocated or every
\* block sparse, on a device whose sectors can or cannot be read.
ProbeInode(size, sparse, readable) ==
    [size |-> size, readable |-> readable,
     direct_ptrs |-> IF sparse THEN NoPointers(INODE_DIRECT_POINTERS)
                     ELSE Pointers(INODE_DIRECT_POINTERS, 100),
     indirect_ptr |-> IF sparse THEN 0 ELSE 99,
     indirect |-> IF sparse THEN NoPointers(BLOCK_SIZE \div 4)
                  ELSE Pointers(BLOCK_SIZE \div 4, 200)]

ReadProbes ==
    [op : {"read_data"}, size : FileSizes, offset : ReadOffsets, len : ReadLens,
     sparse : BOOLEAN, readable : BOOLEAN, done : {FALSE},
     res : {"none"}, bytes : {0}]

InitRead == Boot(FALSE) /\ HistoryInit /\ probe \in ReadProbes

\* fs.read_data(memory, &inode, offset, &mut buf[..len])
ReadData ==
    /\ probe.op = "read_data" /\ ~probe.done
    /\ \E r \in {read_data(ProbeInode(probe.size, probe.sparse, probe.readable),
                            probe.offset, probe.len)} :
          probe' = [probe EXCEPT !.done = TRUE, !.res = r.res, !.bytes = r.bytes]
    /\ UNCHANGED kvars

NextRead == ReadData

SpecRead == InitRead /\ [][NextRead]_vars

\* read_data has returned.
ReadDone == probe.op = "read_data" /\ probe.done

\* min(len, s - o) when o < s, and 0 when o >= s
ExpectedBytes ==
    IF probe.offset < probe.size
    THEN Min(probe.len, probe.size - probe.offset)
    ELSE 0

\* The window read ends within the direct and indirect blocks, or is empty.
WithinBlocks ==
    \/ probe.offset >= probe.size
    \/ probe.len = 0
    \/ Min(probe.offset + probe.len, probe.size) <= MaxFileBytes

MaxMaps == 2

\* Root tables: the kernel's, the one of the running program, and a page
\* beyond the end of RAM.
MapRoots == {KernelSatp % 4194304, cpu.satp % 4194304, RamBasePage + RamPages}
MapPages == {ProgramPage, ProgramPage + 1, StackTopPage - 1, FirstFrame, 1048575}
MapFrames == {RamBasePage + 2048, UartPage, 1048575}
MapFlags == {0, PTE_R, PTE_X, PTE_R + PTE_W + PTE_X, PTE_W + PTE_U,
             PTE_R + PTE_W + PTE_U, PTE_X + PTE_U}
ProbeOffsets == {0, 1, PAGE_SIZE - 1}

InitMap ==
    /\ Boot(FALSE) /\ HistoryInit
    /\ probe = [op |-> "map_page", calls |-> 0, root |-> 0, vpn |-> 0, ppn |-> 0,
                flags |-> 0, res |-> "none"]

\* One call of map_page on the memory as it is.
MapPage ==
    /\ probe.op = "map_page" /\ probe.calls < MaxMaps
    /\ \E root \in MapRoots, vpn \in MapPages, ppn \in MapFrames, flags \in MapFlags :
         \E m \in {map_page(MemoryNow, root, vpn, ppn, flags)} :
            /\ memory' = m.M.delta
            /\ next_free_frame' = m.M.next_free_frame
            /\ probe' = [op |-> "map_page", calls |-> probe.calls + 1,
                         root |-> root, vpn |-> vpn, ppn |-> ppn,
                         flags |-> flags, res |-> m.res]
    /\ UNCHANGED cvars

NextMap == MapPage

SpecMap == InitMap /\ [][NextMap]_vars

\* The access is one the flags of a leaf permit to the privilege.
Permitted(flags, access_type, mode) ==
    /\ (mode = "User") = Has(flags, PTE_U)
    /\ \/ access_type = "Read" /\ (Has(flags, PTE_R) \/ Has(flags, PTE_X))
       \/ access_type = "Write" /\ Has(flags, PTE_W)
       \/ access_type = "Execute" /\ Has(flags, PTE_X)

Mapped == probe.op = "map_page" /\ probe.calls > 0 /\ probe.res = "ok"

\* C24: once map_page(root, va, pa, flags) has succeeded for the pages va and
\* pa, every address va + off of the page translates, through satp = Sv32 mode
\* bit | root and for every access type and paged privilege (User,
\* Supervisor) the flags permit, to exactly pa + off.
C24_MapThenTranslate ==
    Mapped =>
        \A off \in ProbeOffsets, access_type \in AccessTypes,
           mode \in {"User", "Supervisor"} :
            Permitted(probe.flags, access_type, mode) =>
                translate(MemoryNow, probe.vpn, off, access_type,
                          SATP_MODE_SV32 + probe.root, mode)
                    = Translated(probe.ppn, off)

\* A second map_page replaced the leaf of a stack page of the running program
\* by a user-readable mapping.
C24_Witness ==
    /\ Mapped /\ probe.calls = 2
    /\ probe.vpn = StackTopPage - 1 /\ probe.root = cpu.satp % 4194304
    /\ probe.root # KernelSatp % 4194304
    /\ probe.flags = PTE_R + PTE_W + PTE_U
    /\ probe.ppn = UartPage

(* ------------------------- loads and stores --------------------------- *)
\* Byte k (0 the lowest) of a little-endian word.
ByteOf(word, k) == (word \div (256 ^ k)) % 256

\* SimpleMemory::read_byte / write_byte at byte boff of the page ppn.
read_byte(M, ppn, boff) ==
    LET r == read_word(M, ppn, boff \div 4)
    IN  [res |-> r.res, val |-> ByteOf(r.val, boff % 4)]

write_byte(M, ppn, boff, b) ==
    LET old == read_word(M, ppn, boff \div 4).val
        k == boff % 4
    IN  write_word(M, ppn, boff \div 4,
                   old - ByteOf(old, k) * (256 ^ k) + b * (256 ^ k))

\* The address i bytes after offset off of the virtual page vpn.
ByteAddr(vpn, off, i) ==
    IF off + i < PAGE_SIZE THEN [vpn |-> vpn, off |-> off + i]
    ELSE [vpn |-> (vpn + 1) % 1048576, off |-> off + i - PAGE_SIZE]

Trapped(cause, M, rd) == [res |-> "trap", cause |-> cause, M |-> M, rd |-> rd]
Failed(M, rd) == [res |-> "VmError::Memory", cause |-> "none", M |-> M, rd |-> rd]
Done(M, rd) == [res |-> "ok", cause |-> "none", M |-> M, rd |-> rd]

\* The four bytes of a word are translated and moved one by one.  (For a word
\* that lies within one page the machine translates once and moves the four
\* bytes at the resulting address, which comes to the same.)
\* for i in 0..4 { pa = translate_data!(addr + i, Write); write_byte(pa, bytes[i]) }
RECURSIVE store_bytes(_, _, _, _, _, _, _, _)
store_bytes(M, satp, mode, vpn, off, val, rd, i) ==
    IF i = 4 THEN Done(M, rd)
    ELSE LET a == ByteAddr(vpn, off, i)
             t == translate(M, a.vpn, a.off, "Write", satp, mode)
         IN  IF t.res # "ok" THEN Trapped(t.res, M, rd)
             ELSE IF ~InRam(t.page) THEN Failed(M, rd)
             ELSE store_bytes(write_byte(M, t.page, t.offset, ByteOf(val, i)),
                              satp, mode, vpn, off, val, rd, i + 1)

\* Instruction::Sw: rd is the register file, which a store leaves alone.
vm_store(M, satp, mode, vpn, off, val, rd) ==
    LET t == translate(M, vpn, off, "Write", satp, mode)
    IN  IF t.res # "ok" THEN Trapped(t.res, M, rd)
        ELSE store_bytes(M, satp, mode, vpn, off, val, rd, 0)

\* What byte b contributes as byte k of a little-endian word, words being
\* two's-complement 32-bit values (u32::from_le_bytes).
AsByte(b, k) == IF k = 3 /\ b >= 128 THEN (b - 256) * 16777216 ELSE b * (256 ^ k)

\* for i in 0..4 { pa = translate_data!(addr + i, Read); bytes[i] = read_byte(pa) }
RECURSIVE load_bytes(_, _, _, _, _, _, _, _)
load_bytes(M, satp, mode, vpn, off, val, rd, i) ==
    IF i = 4 THEN Done(M, val)
    ELSE LET a == ByteAddr(vpn, off, i)
             t == translate(M, a.vpn, a.off, "Read", satp, mode)
             b == read_byte(M, t.page, t.offset)
         IN  IF t.res # "ok" THEN Trapped(t.res, M, rd)
             ELSE IF b.res = "error" THEN Failed(M, rd)
             ELSE load_bytes(M, satp, mode, vpn, off, val + AsByte(b.val, i),
                             rd, i + 1)

\* Instruction::Lw into the register that holds rd.
vm_load(M, satp, mode, vpn, off, rd) ==
    LET t == translate(M, vpn, off, "Read", satp, mode)
    IN  IF t.res # "ok" THEN Trapped(t.res, M, rd)
        ELSE load_bytes(M, satp, mode, vpn, off, 0, rd, 0)

\* Instruction::decode: the kind of instruction a word encodes, "error" for
\* Err(DecodeError::InvalidOpcode(word)).
decode(word) ==
    LET opcode == word % 128
        funct3 == (word \div 4096) % 8
        funct7 == (word \div 33554432) % 128
        imm == (word \div 1048576) % 4096
    IN  CASE opcode \in {55, 23, 111, 103} -> "ok"
          [] opcode = 99  -> IF funct3 \in {0, 1, 4, 5, 6, 7} THEN "ok" ELSE "error"
          [] opcode = 3   -> IF funct3 \in {0, 1, 2, 4, 5} THEN "ok" ELSE "error"
          [] opcode = 35  -> IF funct3 \in {0, 1, 2} THEN "ok" ELSE "error"
          [] opcode = 19  -> IF funct3 = 5 /\ funct7 \notin {0, 32}
                             THEN "error" ELSE "ok"
          [] opcode = 51  -> IF \/ funct7 = 0
                                \/ funct7 = 32 /\ funct3 \in {0, 5}
                             THEN "ok" ELSE "error"
          [] opcode = 115 -> IF funct3 = 0 /\ imm = 0 THEN "Ecall"
                             ELSE IF funct3 = 0 /\ imm = 1 THEN "Ebreak"
                             ELSE "error"
          [] OTHER        -> "error"

Undecoded(M, rd) == [res |-> "VmError::Decode", cause |-> "none", M |-> M, rd |-> rd]

\* The fetch of VirtualMachine::step: translate the PC, read the word there,
\* decode it.
vm_fetch(M, satp, mode, vpn, off, rd) ==
    LET t == translate(M, vpn, off, "Execute", satp, mode)
        w == read_word(M, t.page, t.offset \div 4)
    IN  IF t.res # "ok" THEN Trapped(t.res, M, rd)
        ELSE IF w.res = "error" THEN Failed(M, rd)
        ELSE IF decode(w.val) = "error" THEN Undecoded(M, rd)
        ELSE Done(M, rd)

(* ------------------------ the MMU on any tables ----------------------- *)
\* A root table, a second-level table and two data frames in free RAM, the
\* first page past the end of RAM, and the virtual page that is accessed.
MmuRoot == FirstFrame + 64
MmuTable == FirstFrame + 65
MmuFrame == FirstFrame + 66
BeyondRam == RamBasePage + RamPages
ProbePage == 5 * 1024 + 7
\* PPN[1] of the superpage at the base of RAM
RamSuper == RamBasePage \div 1024

LeafFlags == {PTE_R, PTE_W, PTE_X, PTE_R + PTE_W, PTE_R + PTE_U, PTE_W + PTE_U,
              PTE_X + PTE_U, PTE_R + PTE_W + PTE_U}
Leaf(ppn, flags) == ppn * 1024 + flags + PTE_V
Pointer(ppn) == ppn * 1024 + PTE_V
SuperLeaf(ppn1, ppn0, flags) == ppn1 * 1048576 + ppn0 * 1024 + flags + PTE_V

\* First-level entries for the probed page: invalid, a pointer to the table,
\* a pointer past RAM, aligned and misaligned superpage leaves.
Pte1s == {0, Pointer(MmuTable), Pointer(BeyondRam)}
         \cup {SuperLeaf(RamSuper, a, f) : a \in {0, 1}, f \in LeafFlags}
\* Second-level entries for the probed page: invalid, valid without R, W, X,
\* leaves to RAM, a leaf past RAM.
Pte0s == {0, PTE_V, Leaf(BeyondRam, PTE_R + PTE_W + PTE_X + PTE_U)}
         \cup {Leaf(MmuFrame, f) : f \in LeafFlags}
\* Second-level entries for the page after it.
NextPte0s == {0, Leaf(MmuFrame + 1, PTE_R + PTE_W + PTE_U),
              Leaf(MmuFrame + 1, PTE_R + PTE_W)}

\* Words at the start of the frames the probed page can lead to: no
\* instruction, ecall, lw, lui, a load of width 3, an ecall with rd = 1.
CodeWords == {0, 115, 8195, 55, 12291, 243}

Tables(pte1, pte0, next_pte0, code) ==
    LET words == [x \in {WordAt(MmuRoot, ProbePage \div 1024),
                         WordAt(MmuTable, ProbePage % 1024),
                         WordAt(MmuTable, (ProbePage % 1024) + 1),
                         WordAt(MmuFrame, 0),
                         WordAt(RamBasePage + (ProbePage % 1024), 0)} |->
                    IF x = WordAt(MmuRoot, ProbePage \div 1024) THEN pte1
                    ELSE IF x = WordAt(MmuTable, ProbePage % 1024) THEN pte0
                    ELSE IF x = WordAt(MmuTable, (ProbePage % 1024) + 1)
                    THEN next_pte0
                    ELSE code]
    IN  [x \in {y \in DOMAIN words : words[y] # 0} |-> words[x]]

MmuSatps == {SATP_MODE_SV32 + MmuRoot, SATP_MODE_SV32 + BeyondRam, MmuRoot}
AccessKinds == {"load", "store", "fetch"}
AccessOffsets == {0, PAGE_SIZE - 4, PAGE_SIZE - 3}
\* The word a store writes and the content of the register a load targets.
StoreValue == 1 + 2 * 256 + 3 * 65536 + 4 * 16777216
RdBefore == 7

AccessOf(kind) ==
    CASE kind = "load" -> "Read" [] kind = "store" -> "Write" [] kind = "fetch" -> "Execute"

InitMmu ==
    /\ KernelInitCore(LazyBoot) /\ HistoryInit
    /\ vm = VirtualMachine_new(TimerInterval)
    /\ \E kind \in AccessKinds, mode \in PrivilegeModes, satp \in MmuSatps,
          off \in AccessOffsets :
          /\ kind = "fetch" => off = 0
          /\ \E pte1 \in Pte1s, pte0 \in Pte0s, next_pte0 \in NextPte0s,
                code \in CodeWords :
                /\ pte1 # Pointer(MmuTable) => pte0 = 0 /\ next_pte0 = 0
                /\ kind # "fetch" => code = 0
                /\ memory = Tables(pte1, pte0, next_pte0, code)
          /\ probe = [op |-> "access", kind |-> kind, mode |-> mode, satp |-> satp,
                   off |-> off, done |-> FALSE, before |-> memory,
                   xlate |-> Fault("none"), res |-> "none", cause |-> "none",
                   rd |-> RdBefore]

\* One load, store or fetch of the machine.
Access ==
    /\ probe.op = "access" /\ ~probe.done
    /\ \E r \in {CASE probe.kind = "load" ->
                        vm_load(MemoryNow, probe.satp, probe.mode, ProbePage,
                                probe.off, probe.rd)
                    [] probe.kind = "store" ->
                        vm_store(MemoryNow, probe.satp, probe.mode, ProbePage,
                                 probe.off, StoreValue, probe.rd)
                    [] probe.kind = "fetch" ->
                        vm_fetch(MemoryNow, probe.satp, probe.mode, ProbePage,
                                 probe.off, probe.rd)} :
          /\ memory' = r.M.delta
          /\ probe' = [probe EXCEPT
                          !.done = TRUE,
                          !.xlate = translate(MemoryNow, ProbePage, probe.off,
                                              AccessOf(probe.kind), probe.satp,
                                              probe.mode),
                          !.res = r.res, !.cause = r.cause, !.rd = r.rd]
    /\ UNCHANGED <<cvars, next_free_frame>>

NextMmu == Access

SpecMmu == InitMmu /\ [][NextMmu]_vars

\* The entry the walk for the probed page ends at in the tables the access
\* found: a valid first-level leaf, else the second-level entry the valid
\* first-level pointer leads to; 0 when a page-table read fails or the
\* first-level entry is invalid.
WalkEnd ==
    LET M == [base |-> BootRam, delta |-> probe.before,
              next_free_frame |-> next_free_frame]
        r1 == read_word(M, (probe.satp % 4194304) % 1048576, ProbePage \div 1024)
        r0 == read_word(M, ((r1.val \div 1024) % 4194304) % 1048576, ProbePage % 1024)
    IN  IF r1.res = "error" \/ ~Has(r1.val, PTE_V) THEN 0
        ELSE IF IsLeaf(r1.val) THEN r1.val
        ELSE IF r0.res = "error" THEN 0
        ELSE r0.val

\* A page-table read of the walk fails on the bus.
WalkReadFails ==
    LET M == [base |-> BootRam, delta |-> probe.before,
              next_free_frame |-> next_free_frame]
        r1 == read_word(M, (probe.satp % 4194304) % 1048576, ProbePage \div 1024)
        r0 == read_word(M, ((r1.val \div 1024) % 4194304) % 1048576, ProbePage % 1024)
    IN  \/ r1.res = "error"
        \/ Has(r1.val, PTE_V) /\ ~IsLeaf(r1.val) /\ r0.res = "error"

\* The walk ends at a first-level (superpage) leaf.
AtSuperpage ==
    LET M == [base |-> BootRam, delta |-> probe.before,
              next_free_frame |-> next_free_frame]
        r1 == read_word(M, (probe.satp % 4194304) % 1048576, ProbePage \div 1024)
    IN  r1.res = "ok" /\ Has(r1.val, PTE_V) /\ IsLeaf(r1.val)

\* The page fault that matches the kind of access.
MatchingFault ==
    CASE probe.kind = "load"  -> "LoadPageFault"
      [] probe.kind = "store" -> "StorePageFault"
      [] probe.kind = "fetch" -> "InstructionPageFault"

Accessed == probe.op = "access" /\ probe.done
PagedAccess == Accessed /\ probe.satp < 0 /\ probe.mode # "Machine"
ValidLeaf == Has(WalkEnd, PTE_V) /\ IsLeaf(WalkEnd)

\* C23: in paged mode, a user-mode load or store whose address resolves to a
\* leaf PTE with U = 0 (4 KiB page or superpage) raises LoadPageFault or
\* StorePageFault respectively, the load leaves its destination register as
\* it was and the store leaves every byte of memory as it was.
C23_UserAccessToSupervisorPageFaults ==
    PagedAccess /\ probe.mode = "User" /\ probe.kind \in {"load", "store"}
                /\ ValidLeaf /\ ~Has(WalkEnd, PTE_U)
        => /\ probe.res = "trap"
           /\ probe.cause = MatchingFault
           /\ probe.rd = RdBefore
           /\ memory = probe.before

\* The word at the physical address the PC translated to, when RAM holds it.
Fetched ==
    /\ Accessed /\ probe.kind = "fetch"
    /\ probe.xlate.res = "ok" /\ InRam(probe.xlate.page)

FetchedWord == read_word(MemoryNow, probe.xlate.page, probe.xlate.offset \div 4).val

\* C26: when the PC translates but the read of the instruction word fails on
\* the bus, the step reports the trap InstructionAccessFault (which the run
\* loop hands to the trap handler like any other trap).
C26_FetchBusErrorTraps ==
    (Accessed /\ probe.kind = "fetch"
        /\ probe.xlate.res = "ok" /\ ~InRam(probe.xlate.page))
        => (probe.res = "trap" /\ probe.cause = "InstructionAccessFault")

\* C27: a fetched word the decoder does not recognise surfaces from the step
\* as the trap IllegalInstruction (which the run loop hands to the trap
\* handler, where it ends the run as an unhandled trap).
C27_UndecodableWordTraps ==
    (Fetched /\ decode(FetchedWord) = "error")
        => (probe.res = "trap" /\ probe.cause = "IllegalInstruction")

\* A user-mode store to a writable superpage without U has faulted.
C23_Witness ==
    /\ PagedAccess /\ probe.mode = "User" /\ probe.kind = "store"
    /\ AtSuperpage /\ WalkEnd = SuperLeaf(RamSuper, 0, PTE_R + PTE_W)
    /\ probe.cause = "StorePageFault"

\* C25 as stated: in paged mode, for a valid leaf PTE, translation succeeds
\* if and only if the flags permit the access type and the U bit matches the
\* privilege, and every failure, including an invalid PTE, is reported as the
\* page fault that matches the access type.
C25_TranslationByFlags ==
    PagedAccess =>
        /\ ValidLeaf => (probe.xlate.res = "ok"
                            <=> Permitted(WalkEnd, AccessOf(probe.kind), probe.mode))
        /\ probe.xlate.res # "ok"
              => probe.xlate.res = MatchingFault

\* C25 amended: in paged mode, for a valid leaf PTE that is a 4 KiB leaf or a
\* superpage leaf whose PPN[0] is zero, translation succeeds if and only if
\* the flags permit the access type and the U bit matches the privilege; a
\* superpage leaf whose PPN[0] is not zero never translates; every failure of
\* a walk whose page-table reads succeed, including an invalid PTE, is
\* reported as the page fault that matches the access type, and a failed
\* page-table read as LoadAccessFault.
C25_TranslationByFlagsAligned ==
    PagedAccess =>
        /\ ValidLeaf /\ ~(AtSuperpage /\ (WalkEnd \div 1024) % 1024 # 0)
              => (probe.xlate.res = "ok"
                    <=> Permitted(WalkEnd, AccessOf(probe.kind), probe.mode))
        /\ ValidLeaf /\ AtSuperpage /\ (WalkEnd \div 1024) % 1024 # 0
              => probe.xlate.res # "ok"
        /\ probe.xlate.res # "ok" /\ ~WalkReadFails
              => probe.xlate.res = MatchingFault
        /\ WalkReadFails => probe.xlate.res = "LoadAccessFault"

\* A supervisor store through an aligned superpage leaf that permits it has
\* translated, and so has a user fetch through a 4 KiB leaf.
C25_Witness ==
    /\ PagedAccess /\ probe.xlate.res = "ok"
    /\ \/ AtSuperpage /\ probe.mode = "Supervisor" /\ probe.kind = "store"
       \/ ~AtSuperpage /\ probe.mode = "User" /\ probe.kind = "fetch"

(* -------------------------------- heap -------------------------------- *)
\* The breaks a thread is taken to: a page below its heap start, and up to
\* MaxGrow pages above it, give or take a byte.
HeapBreaks ==
    {b - PAGE_SIZE : b \in {DefaultBreak, heap_start}}
    \cup {b + k * PAGE_SIZE + d :
             b \in {DefaultBreak, heap_start}, k \in 0..MaxGrow, d \in {-1, 0, 1}}
HeapIncrements == {-PAGE_SIZE, -1, 0, 1, PAGE_SIZE}

\* Where a thread stands in a sequence sbrk(+n); sbrk(-n); sbrk(0): the
\* number of calls of the sequence that have returned, n, and what the first
\* and the latest of them returned.
NoSeq == [stage |-> 0, n |-> 0, start |-> 0, last |-> 0]

SeqAfter(seq, increment, returned) ==
    IF increment > 0
    THEN [stage |-> 1, n |-> increment, start |-> returned, last |-> returned]
    ELSE IF increment < 0 /\ seq.stage = 1 /\ seq.n = -increment
    THEN [seq EXCEPT !.stage = 2, !.last = returned]
    ELSE IF increment = 0 /\ seq.stage = 2
    THEN [seq EXCEPT !.stage = 3, !.last = returned]
    ELSE NoSeq

InitHeap ==
    /\ Boot(FALSE) /\ HistoryInit
    /\ probe = [op |-> "sbrk", seq |-> [h \in Handles |-> NoSeq]]

\* The running thread calls sbrk.
HeapSbrk ==
    /\ probe.op = "sbrk"
    /\ \E increment \in HeapIncrements, c \in {Caller} :
          /\ CallerTcb.program_break + increment \in HeapBreaks
          /\ increment > 0 => HeapFrames < MaxFrames
          /\ TrapCore("EnvironmentCall", SYS_SBRK, increment, 0, <<>>)
          /\ UNCHANGED vm
          /\ probe' = IF run' = "running" /\ tm'.current_thread = c
                      THEN [probe EXCEPT !.seq[c] = SeqAfter(@, increment, cpu'.a0)]
                      ELSE probe

NextHeap ==
    \/ HeapSbrk
    \/ ThreadCreate
    \/ TimerInterrupt

SpecHeap == InitHeap /\ [][NextHeap]_vars

\* C21: when a thread has issued sbrk(+n); sbrk(-n); sbrk(0) for an n > 0, the
\* last call has returned the break value the first call returned, whatever
\* other threads did in between.
C21_SbrkRoundTrip ==
    probe.op = "sbrk" =>
        \A h \in Handles :
            probe.seq[h].stage = 3 => probe.seq[h].last = probe.seq[h].start

\* A thread has completed the sequence with an n that is not a whole number
\* of pages, while another thread has moved its own break.
C21_Witness ==
    /\ probe.op = "sbrk"
    /\ \E h \in Handles :
          /\ probe.seq[h].stage = 3 /\ probe.seq[h].n = 1
          /\ \E g \in DOMAIN tm.threads :
                g # h /\ tm.threads[g].program_break # tm.threads[h].program_break

\* The pages that intersect [b, b + n).
PagesOf(b, n) == {PageOf(b) + k : k \in 0..(PageOf(b + n - 1) - PageOf(b))}

\* The page is mapped by a valid leaf with U, R and W, to a frame of RAM, in
\* the address space satp names: user-mode loads and stores to it succeed.
UserMapped(M, satp, page) ==
    \A access_type \in {"Read", "Write"} :
        LET t == translate(M, page, 0, access_type, satp, "User")
        IN  t.res = "ok" /\ InRam(t.page)

\* C22: when sbrk(n) with n > 0 returns b, the caller's break is b + n and
\* every page that intersects [b, b + n) is mapped in the caller's address
\* space by a valid leaf with user, read and write permission, so that
\* user-mode loads and stores in the range succeed.
C22_SbrkMapsRange ==
    \A n \in {1, PAGE_SIZE} :
        CanEcall(SYS_SBRK, n, 0) =>
            LET K == EcallStep(SYS_SBRK, n, 0, <<>>)
                c == Caller
                b == K.cpu.a0
            IN  K.run = "running" /\ K.tm.current_thread = c =>
                  /\ K.tm.threads[c].program_break = b + n
                  /\ \A page \in PagesOf(b, n) :
                        UserMapped(K.memory, K.tm.threads[c].context.satp, page)

(* ------------------------------ run loop ------------------------------ *)
MaxInterval == 3
MaxSteps == 7

InitVm ==
    /\ BootKernel(FALSE) /\ HistoryInit /\ probe = NoProbe
    /\ \E interval \in 1..MaxInterval : vm = VirtualMachine_new(interval)

\* The head of the loop body of VirtualMachine::run: when the timer is due it
\* is re-armed and TimerInterrupt is handed to the trap handler.
TimerCheck ==
    /\ run = "running" /\ vm.phase = "top"
    /\ IF timer_due(vm)
       THEN /\ TrapCore("TimerInterrupt", 0, 0, 0, <<>>)
            /\ vm' = [vm EXCEPT !.next_timer_interrupt = @ + vm.timer_interval,
                                !.timers = Append(@, vm.instruction_count),
                                !.phase = "step"]
       ELSE /\ vm' = [vm EXCEPT !.phase = "step"]
            /\ UNCHANGED svars
    /\ UNCHANGED probe

\* The rest of the loop body: one call of step, counted whatever it returns.
\* What step returns is up to the guest program: Continue, a trap (an ECALL,
\* a fault), or an error.
StepCounted == vm' = [vm EXCEPT !.instruction_count = @ + 1, !.phase = "top"]

StepContinue ==
    /\ run = "running" /\ vm.phase = "step" /\ vm.instruction_count < MaxSteps
    /\ cpu.pc # "ecall"
    /\ StepCounted
    /\ UNCHANGED <<svars, probe>>

StepEcall ==
    /\ run = "running" /\ vm.phase = "step" /\ vm.instruction_count < MaxSteps
    /\ StepCounted
    /\ \/ TrapCore("EnvironmentCall", SYS_YIELD, 0, 0, <<>>)
       \/ /\ ensure_current_thread(tm, cpu).next_handle <= MaxThreads
          /\ TrapCore("EnvironmentCall", SYS_THREAD_CREATE, 0, 0, <<>>)
       \/ TrapCore("EnvironmentCall", SYS_EXIT, 0, 0, <<>>)
    /\ UNCHANGED probe

StepFault ==
    /\ run = "running" /\ vm.phase = "step" /\ vm.instruction_count < MaxSteps
    /\ cpu.pc # "ecall"
    /\ StepCounted
    /\ \E cause \in {"LoadPageFault", "Breakpoint"} : TrapCore(cause, 0, 0, 0, <<>>)
    /\ UNCHANGED probe

StepError ==
    /\ run = "running" /\ vm.phase = "step" /\ vm.instruction_count < MaxSteps
    /\ cpu.pc # "ecall"
    /\ StepCounted
    /\ run' = "error"
    /\ UNCHANGED <<tm, mutexes, next_mutex_id, pipes, next_pipe_id, file_system,
                   cpu, inside, pend, arrivals, grants, written, readlog, wclosed,
                   exited, wpend, memory, next_free_frame, probe>>

NextVm ==
    \/ TimerCheck
    \/ StepContinue
    \/ StepEcall
    \/ StepFault
    \/ StepError

SpecVm == InitVm /\ [][NextVm]_vars

\* The timer interrupts handed to the trap handler once count instructions
\* have been executed and the next has not been fetched.
TimersDue(count) == [i \in 1..(count \div vm.timer_interval) |-> i * vm.timer_interval]

\* C28: with timer_interval = N, the timer interrupt is handed to the trap
\* handler exactly once per N executed instructions, after the N-th, 2N-th,
\* ... step and before the next fetch: when step is about to be called after
\* k instructions the interrupts delivered are those of N, 2N, ... up to k,
\* and none is delivered between the timer check and the end of the step.
C28_TimerOncePerInterval ==
    IF vm.phase = "step"
    THEN vm.timers = TimersDue(vm.instruction_count)
    ELSE vm.instruction_count > 0 => vm.timers = TimersDue(vm.instruction_count - 1)

\* Two interrupts have been delivered with N = 2, the second one preempting
\* a thread in favour of another.
C28_Witness ==
    /\ vm.timer_interval = 2 /\ vm.timers = <<2, 4>>
    /\ vm.phase = "step" /\ run = "running"
    /\ Cardinality(DOMAIN tm.threads) = 2

(* ------------------------- blocked pipe readers ----------------------- *)
\* The threads in the wait queue of pipe p.
Readers(p) == {pipes[p].wait_queue[i] : i \in 1..Len(pipes[p].wait_queue)}

\* In kernel K every thread that waited on pipe p is Ready and in the ready
\* queue, and the wait queue of p, if p is still there, is empty.
ReadersWoken(K, p) ==
    /\ \A h \in Readers(p) :
          /\ K.tm.threads[h].state = Ready
          /\ \E i \in 1..Len(K.tm.ready_queue) : K.tm.ready_queue[i] = h
    /\ p \in DOMAIN K.pipes => K.pipes[p].wait_queue = <<>>

\* The read of the caller, re-executed on pipe p, has returned data or 0 to
\* the caller, or has blocked the caller on p again.
ReadServed(K, p) ==
    \/ /\ K.run = "running" /\ K.tm.current_thread = Caller
       /\ K.cpu.pc = "user" /\ K.cpu.a0 # U32Max
    \/ /\ K.tm.threads[Caller].state = Blocked
       /\ K.tm.threads[Caller].context.pc = "ecall"
       /\ p \in DOMAIN K.pipes
       /\ \E i \in 1..Len(K.pipes[p].wait_queue) : K.pipes[p].wait_queue[i] = Caller

\* A write of len bytes to fd will be accepted by a pipe.
PipeWrite(fd) ==
    /\ CallerFd(fd).kind = "pipe" /\ CallerFd(fd).is_write
    /\ CallerFd(fd).pipe_id \in DOMAIN pipes
    /\ pipes[CallerFd(fd).pipe_id].read_open

\* A close of fd closes the write end of a pipe.
WriteEndClose(fd) ==
    /\ CallerFd(fd).kind = "pipe" /\ CallerFd(fd).is_write
    /\ CallerFd(fd).pipe_id \in DOMAIN pipes

\* The running thread is at the ECALL of a read on the read end of a pipe:
\* it blocked in this read before and has been given the CPU again.
AtPipeRead ==
    /\ run = "running" /\ tm.current_thread # None
    /\ cpu.pc = "ecall" /\ cpu.a7 = SYS_READ
    /\ CallerFd(cpu.a0).kind = "pipe" /\ ~CallerFd(cpu.a0).is_write

\* C31, the wake-up: in every state, a write a pipe accepts and the close of
\* a pipe's write end make every thread in the pipe's wait queue Ready and
\* leave the wait queue empty.
C31_WriteAndCloseWakeReaders ==
    \A fd \in FdArgs :
        /\ \A len \in 0..MaxLen :
              CanEcall(SYS_WRITE, fd, len) /\ PipeWrite(fd)
                 => ReadersWoken(EcallStep(SYS_WRITE, fd, len, WriteBuf(fd, len)),
                                 CallerFd(fd).pipe_id)
        /\ CanEcall(SYS_CLOSE, fd, 0) /\ WriteEndClose(fd)
              => ReadersWoken(EcallStep(SYS_CLOSE, fd, 0, <<>>), CallerFd(fd).pipe_id)

\* C31, the saved PC: a thread in the wait queue of a pipe has the ECALL of
\* its read as saved PC, with the registers of the call.
C31_BlockedReaderAtEcall ==
    \A p \in DOMAIN pipes : \A h \in Readers(p) :
        /\ tm.threads[h].context.pc = "ecall"
        /\ tm.threads[h].context.a7 = SYS_READ

\* C31: a write to a pipe and the close of its write end wake every reader
\* blocked on the pipe and empty its wait queue in the same step; a reader's
\* saved PC is the ECALL of its read, and the read it re-executes when it is
\* scheduled returns data, returns 0 (EOF), or blocks again.
C31_PipeReadersWokenAndRetry ==
    /\ C31_WriteAndCloseWakeReaders
    /\ C31_BlockedReaderAtEcall
    /\ AtPipeRead =>
          ReadServed(EcallStep(SYS_READ, cpu.a0, cpu.a2, <<>>), CallerFd(cpu.a0).pipe_id)


(* ------------------ accesses that cross a page boundary --------------- *)
\* (val as i16) as i32
sign_extend16(v) == IF v >= 32768 THEN v - 65536 ELSE v

\* The second byte of a halfword at phys + 1, whatever page it lies in.
second_byte_contiguous(M, satp, mode, vpn, off, access_type, phys) ==
    Translated(phys.page + ((phys.offset + 1) \div PAGE_SIZE),
               (phys.offset + 1) % PAGE_SIZE)

\* phys2 of Lh, Lhu and Sh: if (addr & 0xFFF) == 0xFFF the translation of
\* addr + 1, else phys + 1.
second_byte(M, satp, mode, vpn, off, access_type, phys) ==
    IF off = PAGE_SIZE - 1
    THEN translate(M, (vpn + 1) % 1048576, 0, access_type, satp, mode)
    ELSE Translated(phys.page, phys.offset + 1)

\* Instruction::Lh (signed) and Instruction::Lhu.  Lh reads the first byte
\* before it translates the second address, Lhu after.
vm_load_half(M, satp, mode, vpn, off, rd, signed) ==
    LET t == translate(M, vpn, off, "Read", satp, mode)
        t2 == second_byte(M, satp, mode, vpn, off, "Read", t)
        b0 == read_byte(M, t.page, t.offset)
        b1 == read_byte(M, t2.page, t2.offset)
    IN  IF t.res # "ok" THEN Trapped(t.res, M, rd)
        ELSE IF signed /\ b0.res = "error" THEN Failed(M, rd)
        ELSE IF t2.res # "ok" THEN Trapped(t2.res, M, rd)
        ELSE IF b0.res = "error" \/ b1.res = "error" THEN Failed(M, rd)
        ELSE Done(M, IF signed THEN sign_extend16(b1.val * 256 + b0.val)
                     ELSE b1.val * 256 + b0.val)

\* Instruction::Sh: both addresses are translated, then both bytes written.
vm_store_half(M, satp, mode, vpn, off, val, rd) ==
    LET t == translate(M, vpn, off, "Write", satp, mode)
        t2 == second_byte(M, satp, mode, vpn, off, "Write", t)
    IN  IF t.res # "ok" THEN Trapped(t.res, M, rd)
        ELSE IF t2.res # "ok" THEN Trapped(t2.res, M, rd)
        ELSE IF ~InRam(t.page) THEN Failed(M, rd)
        ELSE IF ~InRam(t2.page)
        THEN Failed(write_byte(M, t.page, t.offset, ByteOf(val, 0)), rd)
        ELSE Done(write_byte(write_byte(M, t.page, t.offset, ByteOf(val, 0)),
                             t2.page, t2.offset, ByteOf(val, 1)), rd)

\* The frame the page after the probed one is mapped to: not the frame that
\* follows MmuFrame in RAM.
CrossFrame == MmuFrame + 3
CrossKinds == {"lh", "lhu", "lw", "sh", "sw"}
CrossWidth(kind) == IF kind \in {"lh", "lhu", "sh"} THEN 2 ELSE 4
CrossAccessType(kind) == IF kind \in {"sh", "sw"} THEN "Write" ELSE "Read"
CrossOffsets(kind) ==
    IF CrossWidth(kind) = 2 THEN {PAGE_SIZE - 2, PAGE_SIZE - 1}
    ELSE {PAGE_SIZE - 4, PAGE_SIZE - 3, PAGE_SIZE - 2, PAGE_SIZE - 1}
CrossPte0s == {Leaf(MmuFrame, f) : f \in {PTE_R + PTE_W + PTE_U, PTE_R + PTE_W,
                                          PTE_R + PTE_U}}
CrossNextPte0s ==
    {0, Leaf(MmuFrame + 1, PTE_R + PTE_W + PTE_U)}
    \cup {Leaf(CrossFrame, f) : f \in {PTE_R + PTE_W + PTE_U, PTE_R + PTE_W,
                                       PTE_R + PTE_U, PTE_W + PTE_U}}
\* What the last word of MmuFrame and the first words of the two frames that
\* can follow it hold before the access.
LastWord == 17 + 18 * 256 + 19 * 65536 + 20 * 16777216
FollowingWord == 33 + 34 * 256 + 35 * 65536 + 36 * 16777216
CrossWord == 132 + 50 * 256 + 51 * 65536 + 52 * 16777216

CrossTables(pte0, next_pte0) ==
    LET words == <<
            <<WordAt(MmuRoot, ProbePage \div 1024), Pointer(MmuTable)>>,
            <<WordAt(MmuTable, ProbePage % 1024), pte0>>,
            <<WordAt(MmuTable, (ProbePage % 1024) + 1), next_pte0>>,
            <<WordAt(MmuFrame, 1023), LastWord>>,
            <<WordAt(MmuFrame + 1, 0), FollowingWord>>,
            <<WordAt(CrossFrame, 0), CrossWord>> >>
    IN  [x \in {words[k][1] : k \in {j \in 1..6 : words[j][2] # 0}} |->
            words[CHOOSE k \in 1..6 : words[k][1] = x][2]]

InitCross ==
    /\ KernelInitCore(LazyBoot) /\ HistoryInit
    /\ vm = VirtualMachine_new(TimerInterval)
    /\ \E kind \in CrossKinds, mode \in {"User", "Supervisor"},
          pte0 \in CrossPte0s, next_pte0 \in CrossNextPte0s :
          \E off \in CrossOffsets(kind) :
             /\ memory = CrossTables(pte0, next_pte0)
             /\ probe = [op |-> "cross", kind |-> kind, mode |-> mode,
                         satp |-> SATP_MODE_SV32 + MmuRoot, off |-> off,
                         done |-> FALSE, before |-> memory, res |-> "none",
                         cause |-> "none", rd |-> RdBefore]

\* One halfword or word load or store of the machine.
CrossAccess ==
    /\ probe.op = "cross" /\ ~probe.done
    /\ \E r \in {CASE probe.kind = "lh" ->
                        vm_load_half(MemoryNow, probe.satp, probe.mode,
                                     ProbePage, probe.off, probe.rd, TRUE)
                    [] probe.kind = "lhu" ->
                        vm_load_half(MemoryNow, probe.satp, probe.mode,
                                     ProbePage, probe.off, probe.rd, FALSE)
                    [] probe.kind = "lw" ->
                        vm_load(MemoryNow, probe.satp, probe.mode, ProbePage,
                                probe.off, probe.rd)
                    [] probe.kind = "sh" ->
                        vm_store_half(MemoryNow, probe.satp, probe.mode,
                                      ProbePage, probe.off, StoreValue, probe.rd)
                    [] probe.kind = "sw" ->
                        vm_store(MemoryNow, probe.satp, probe.mode, ProbePage,
                                 probe.off, StoreValue, probe.rd)} :
          /\ memory' = r.M.delta
          /\ probe' = [probe EXCEPT !.done = TRUE, !.res = r.res,
                                    !.cause = r.cause, !.rd = r.rd]
    /\ UNCHANGED <<cvars, next_free_frame>>

NextCross == CrossAccess

SpecCross == InitCross /\ [][NextCross]_vars

\* Memory as the access found it.
CrossBefore == [base |-> BootRam, delta |-> probe.before,
                next_free_frame |-> next_free_frame]

\* The translation of the address of byte i of the access, by itself.
OwnPhys(i) ==
    LET a == ByteAddr(ProbePage, probe.off, i)
    IN  translate(CrossBefore, a.vpn, a.off, CrossAccessType(probe.kind),
                  probe.satp, probe.mode)

\* Byte i of the access, read where its own address translates to.
OwnByte(M, i) == read_byte(M, OwnPhys(i).page, OwnPhys(i).offset).val

\* The value the bytes at their own addresses make up.
OwnValue(M) ==
    IF CrossWidth(probe.kind) = 2 THEN OwnByte(M, 0) + 256 * OwnByte(M, 1)
    ELSE OwnByte(M, 0) + 256 * OwnByte(M, 1) + 65536 * OwnByte(M, 2)
         + (IF OwnByte(M, 3) >= 128 THEN OwnByte(M, 3) - 256 ELSE OwnByte(M, 3))
           * 16777216

\* The words of the bytes of the access.
OwnWords ==
    {WordAt(OwnPhys(i).page, OwnPhys(i).offset \div 4) :
        i \in 0..(CrossWidth(probe.kind) - 1)}

CrossWord_at(M, wa) == IF wa \in DOMAIN M.delta THEN M.delta[wa] ELSE BaseWord(M, wa)

Crossed ==
    /\ probe.op = "cross" /\ probe.done
    /\ probe.off + CrossWidth(probe.kind) > PAGE_SIZE

\* C33: a halfword or word load or store whose bytes lie in two pages reads
\* or writes every byte at the translation of that byte's own address: when
\* both pages admit the access, a load returns the bytes found there and a
\* store puts its bytes there and changes no other word; when a page does
\* not admit it, the access traps with the cause that byte's translation
\* gives and the load's register keeps its value.
C33_CrossPageBytesTranslated ==
    Crossed =>
        LET n == CrossWidth(probe.kind)
            bad == {i \in 0..(n - 1) : OwnPhys(i).res # "ok"}
        IN  IF bad = {}
            THEN /\ probe.res = "ok"
                 /\ probe.kind \in {"lhu", "lw"} => probe.rd = OwnValue(CrossBefore)
                 /\ probe.kind = "lh" =>
                        probe.rd = sign_extend16(OwnValue(CrossBefore))
                 /\ probe.kind \in {"sh", "sw"} =>
                        /\ OwnValue(MemoryNow) = IF n = 2 THEN StoreValue % 65536
                                                ELSE StoreValue
                        /\ probe.rd = RdBefore
                        /\ \A wa \in (DOMAIN memory \cup DOMAIN probe.before)
                                     \ OwnWords :
                              CrossWord_at(MemoryNow, wa) = CrossWord_at(CrossBefore, wa)
            ELSE /\ probe.res = "trap"
                 /\ \E i \in bad : /\ \A j \in bad : i <= j
                                   /\ probe.cause = OwnPhys(i).res
                 /\ probe.kind \notin {"sh", "sw"} => probe.rd = RdBefore

\* A halfword store across the boundary whose second page is mapped to a
\* frame that does not follow the first one in RAM has written both bytes.
C33_Witness ==
    /\ Crossed /\ probe.kind = "sh" /\ probe.res = "ok"
    /\ WordAt(MmuTable, (ProbePage % 1024) + 1) \in DOMAIN probe.before
    /\ probe.before[WordAt(MmuTable, (ProbePage % 1024) + 1)] \div 1024 = CrossFrame
    /\ memory[WordAt(CrossFrame, 0)] = CrossWord - 132 + 2


\* C37: a store that ends in a trap has written no byte: memory is as the
\* store found it.
C37_TrappedStoreWritesNothing ==
    probe.op = "cross" /\ probe.done /\ probe.kind \in {"sh", "sw"}
                       /\ probe.res = "trap"
        => memory = probe.before

(* --------------------------- frame allocator -------------------------- *)
\* Calls of alloc_frame that are followed: enough to use up the RAM that
\* follows the kernel's 4 MiB.
MaxAllocs == 3072

InitFrames ==
    /\ Boot(FALSE) /\ HistoryInit
    /\ probe = [op |-> "alloc_frame", calls |-> 0, frame |-> 0, before |-> {}]

\* One call of alloc_frame; before holds the pages returned by earlier calls
\* of which the latest only is kept, the others being smaller.
AllocFrame ==
    /\ probe.op = "alloc_frame" /\ probe.calls < MaxAllocs
    /\ \E a \in {alloc_frame(MemoryNow)} :
          /\ next_free_frame' = a.M.next_free_frame
          /\ probe' = [op |-> "alloc_frame", calls |-> probe.calls + 1,
                       frame |-> a.frame,
                       before |-> IF probe.calls = 0 THEN {} ELSE {probe.frame}]
    /\ UNCHANGED <<cvars, memory>>

NextFrames == AllocFrame

SpecFrames == InitFrames /\ [][NextFrames]_vars

\* C34: the frame alloc_frame returns is a whole page (frames are counted in
\* pages of 4 KiB here) above every frame returned before and inside RAM, at
\* or above 0x8040_0000 and below the end of RAM.
C34_FramesInsideRam ==
    probe.op = "alloc_frame" /\ probe.calls > 0
        => /\ \A f \in probe.before : f < probe.frame
           /\ FirstFrame <= probe.frame
           /\ probe.frame < RamBasePage + RamPages

(* ------------------------- sbrk and mapped pages ---------------------- *)
\* The pages the heaps of SpecHeap can come to cover.
HeapPages ==
    {PageOf(b) + k : b \in {DefaultBreak, heap_start}, k \in -1..(MaxGrow + 1)}

\* The frame the user page vpn is mapped to under satp in the RAM whose
\* changed words are delta; None when it is not mapped.
HeapFrameOf(delta, nff, satp, vpn) ==
    LET t == translate([base |-> BootRam, delta |-> delta, next_free_frame |-> nff],
                       vpn, 0, "Read", satp, "User")
    IN  IF t.res = "ok" THEN t.page ELSE None

\* C36: no step replaces the frame of a page that is mapped in the address
\* space of a thread: a heap page that is mapped before a step is mapped to
\* the same frame after it.
C36_SbrkKeepsMappedFrames ==
    [][\A h \in DOMAIN tm.threads : \A vpn \in HeapPages :
          LET satp == tm.threads[h].context.satp
              f == HeapFrameOf(memory, next_free_frame, satp, vpn)
          IN  f # None => HeapFrameOf(memory', next_free_frame', satp, vpn) = f]_vars


(* ----------------------- pipes and descriptors ------------------------ *)
\* C35: every pipe descriptor in the descriptor table of any thread refers
\* to a pipe that is in the pipe table.
C35_PipeDescriptorsLive ==
    \A h \in DOMAIN tm.threads :
        \A i \in 1..Len(tm.threads[h].file_descriptors) :
            tm.threads[h].file_descriptors[i].kind = "pipe"
                => tm.threads[h].file_descriptors[i].pipe_id \in DOMAIN pipes


(* ------------------------- copies from and to users ------------------- *)
\* Bytes a copy moves at most.
MaxCopy == 2

\* SystemBus: RAM answers, and so do the 0x100 bytes of the UART; a byte is
\* written to a device as a word, which must be aligned.
BusReads(page, offset) == InRam(page) \/ (page = UartPage /\ offset < 256)
BusWrites(page, offset) ==
    InRam(page) \/ (page = UartPage /\ offset < 256 /\ offset % 4 = 0)

\* translate_vaddr(memory, satp, vaddr) for the address at offset of the
\* virtual page vpn.
translate_vaddr(M, satp, vpn, offset) ==
    IF satp >= 0 THEN Translated(vpn, offset)
    ELSE
    LET r1 == read_word(M, (satp % 4194304) % 1048576, (vpn \div 1024) % 1024)
        r0 == read_word(M, ((r1.val \div 1024) % 4194304) % 1048576, vpn % 1024)
    IN  IF r1.res = "error" THEN Fault("HandlerPanic")
        ELSE IF ~Has(r1.val, PTE_V) THEN Fault("HandlerPanic")
        ELSE IF r0.res = "error" THEN Fault("HandlerPanic")
        ELSE IF ~Has(r0.val, PTE_V) THEN Fault("HandlerPanic")
        ELSE Translated(((r0.val \div 1024) % 4194304) % 1048576, offset)

Copied(res, M, touched) == [res |-> res, M |-> M, touched |-> touched]

\* The byte the kernel stores as byte i of a buffer.
KernelByte(i) == 65 + i

\* One byte of copy_from_user (to_user FALSE) or copy_to_user at the physical
\* address t: the memory after it, and whether the bus answered.
copy_byte(M, to_user, t, i) ==
    IF to_user
    THEN [ok |-> BusWrites(t.page, t.offset),
          M |-> IF InRam(t.page) THEN write_byte(M, t.page, t.offset, KernelByte(i))
                ELSE M]
    ELSE [ok |-> BusReads(t.page, t.offset), M |-> M]

\* copy_from_user and copy_to_user: for (i, byte) in ...enumerate() { paddr =
\* translate_vaddr(memory, satp, ptr + i)?; read_byte / write_byte(paddr) }.
\* touched collects, for every byte the bus was asked for, the virtual page of
\* the byte and the physical page it was moved at.
RECURSIVE copy_user(_, _, _, _, _, _, _, _)
copy_user(M, satp, to_user, vpn, off, n, i, touched) ==
    IF i = n THEN Copied("ok", M, touched)
    ELSE LET a == ByteAddr(vpn, off, i)
             t == translate_vaddr(M, satp, a.vpn, a.off)
             b == copy_byte(M, to_user, t, i)
             seen == touched \cup {[vpn |-> a.vpn, page |-> t.page]}
         IN  IF t.res # "ok" THEN Copied("HandlerPanic", M, touched)
             ELSE IF ~b.ok THEN Copied("HandlerPanic", b.M, seen)
             ELSE copy_user(b.M, satp, to_user, vpn, off, n, i + 1, seen)

\* The pages user buffers are put in: the devices, the program, the user
\* stack, the kernel's RAM and a page nothing maps.
CopyPages == {UartPage, BlockPage, ProgramPage, StackTopPage - 1, RamBasePage, 5}
CopyOffsets == {0, 4, PAGE_SIZE - 1}

InitCopy ==
    /\ Boot(FALSE) /\ tm.current_thread # None /\ HistoryInit
    /\ \E to_user \in BOOLEAN, vpn \in CopyPages, off \in CopyOffsets,
          len \in 1..MaxCopy :
          probe = [op |-> "copy", to_user |-> to_user, vpn |-> vpn, off |-> off,
                   len |-> len, done |-> FALSE, before |-> memory,
                   satp |-> 0, res |-> "none", touched |-> {}]

\* The kernel copies a buffer of the running thread, as FileWrite does with
\* copy_from_user and FileRead with copy_to_user: under tcb.context.satp.
CopyUser ==
    /\ probe.op = "copy" /\ ~probe.done
    /\ \E satp \in {CallerTcb.context.satp} :
       \E r \in {copy_user(MemoryNow, satp, probe.to_user, probe.vpn, probe.off,
                           probe.len, 0, {})} :
          /\ memory' = r.M.delta
          /\ probe' = [probe EXCEPT !.done = TRUE, !.satp = satp, !.res = r.res,
                                    !.touched = r.touched]
    /\ UNCHANGED <<cvars, next_free_frame>>

NextCopy == CopyUser

SpecCopy == InitCopy /\ [][NextCopy]_vars

\* C38: every byte the kernel moves for a user buffer is moved at a page a
\* user-mode load (copy_from_user) or store (copy_to_user) of the same address
\* would be let through to.
C38_KernelCopiesOnlyUserPages ==
    probe.op = "copy" /\ probe.done =>
        \A x \in probe.touched :
            translate([base |-> BootRam, delta |-> probe.before,
                       next_free_frame |-> next_free_frame],
                      x.vpn, 0, IF probe.to_user THEN "Write" ELSE "Read",
                      probe.satp, "User").res = "ok"


(* ----------------------- the reserved descriptors --------------------- *)
\* Sockets a run creates.
MaxSockets == 2

InitSocket == Boot(FALSE) /\ HistoryInit /\ probe = [op |-> "sockets", next_id |-> 1]

\* The running thread calls socket.
Socket ==
    /\ probe.op = "sockets" /\ probe.next_id <= MaxSockets
    /\ TrapCore("EnvironmentCall", SYS_SOCKET, 0, 0, <<>>)
    /\ probe' = [probe EXCEPT !.next_id = @ + 1]
    /\ UNCHANGED vm

\* The running thread writes to stdout or stderr.
StdWrite == \E fd \in {1, 2}, len \in 1..MaxLen :
                Ecall(SYS_WRITE, fd, len, [i \in 1..len |-> 0])

NextSocket ==
    \/ Socket
    \/ PipeCreate
    \/ FileOpen
    \/ FileClose
    \/ StdWrite
    \/ ThreadCreate

SpecSocket == InitSocket /\ [][NextSocket]_vars

\* C39: the entries 0, 1 and 2 of the descriptor table of every thread hold
\* no descriptor, and a write to fd 1 or fd 2 returns the length written, as
\* a write to the UART does.
C39_StdDescriptorsReserved ==
    /\ \A h \in DOMAIN tm.threads : \A i \in 1..3 :
          tm.threads[h].file_descriptors[i] = NoFd
    /\ \A fd \in {1, 2}, len \in 1..MaxLen :
          CanEcall(SYS_WRITE, fd, len)
              => EcallStep(SYS_WRITE, fd, len, [i \in 1..len |-> 0]).cpu.a0 = len


(* ------------------------- contexts across switches ------------------- *)
\* Values user code leaves in a register.
RegValues == {0, 1}

\* What is kept of a thread that has not been switched out, of an exit code
\* that has not been given, of a step that resumed no thread.
NoContext == [known |-> FALSE]
NoCode == U32Max - 1
NoResume == [h |-> None]

\* The CPU thread h was switched out with, and the thread it waits for.
SwitchedOut(c, target) == [known |-> TRUE, cpu |-> c, target |-> target]

InitContext ==
    /\ \E mode \in PrivilegeModes :
          \/ KernelInit([LazyBoot EXCEPT !.cpu.mode = mode])
          \/ KernelInit([BootstrapBoot EXCEPT !.cpu.mode = mode])
    /\ vm = VirtualMachine_new(TimerInterval)
    /\ HistoryInit
    /\ probe = [op |-> "context", out |-> [h \in Handles |-> NoContext],
                codes |-> [h \in Handles |-> NoCode], resumed |-> NoResume]

\* User code runs: it leaves the entry point and changes its registers.
UserCode ==
    /\ probe.op = "context" /\ run = "running"
    /\ \E v \in RegValues : cpu' = [cpu EXCEPT !.pc = "user", !.s0 = v]
    /\ probe' = [probe EXCEPT !.resumed = NoResume]
    /\ UNCHANGED <<tm, mutexes, next_mutex_id, pipes, next_pipe_id, file_system,
                   run, inside, pend, arrivals, grants, written, readlog, wclosed,
                   exited, wpend, memory, next_free_frame, vm>>

\* What the step that resumes thread n records: the CPU n is given, the CPU
\* it was switched out with and the exit code of the thread it waited for.
Resumption(n, got, out, codes) ==
    IF n = None \/ ~out[n].known THEN NoResume
    ELSE [h |-> n, got |-> got, expect |-> out[n].cpu, target |-> out[n].target,
          code |-> IF out[n].target = None THEN NoCode ELSE codes[out[n].target]]

\* The kernel serves a trap of the running thread c, entered with the CPU
\* cin.  leaves says whether c is switched out by it, and then left is the
\* CPU c has at that point and target the thread c waits for; code is the
\* exit code c gives.
ContextTrap(cause, cin, c, leaves, left, target, code) ==
    /\ probe.op = "context" /\ run = "running"
    /\ \E K \in {handle_trap(KernelNow(cin), cause, <<>>)} :
       \E out \in {IF leaves THEN [probe.out EXCEPT ![c] = SwitchedOut(left, target)]
                   ELSE probe.out},
          codes \in {IF code = NoCode THEN probe.codes
                     ELSE [probe.codes EXCEPT ![c] = code]} :
          /\ tm' = K.tm /\ cpu' = K.cpu /\ run' = K.run
          /\ probe' = [probe EXCEPT
                          !.out = out, !.codes = codes,
                          !.resumed = IF K.run = "running" /\ (leaves \/ code # NoCode)
                                      THEN Resumption(K.tm.current_thread, K.cpu,
                                                      out, codes)
                                      ELSE NoResume]
    /\ UNCHANGED <<mutexes, next_mutex_id, pipes, next_pipe_id, file_system,
                   inside, pend, arrivals, grants, written, readlog, wclosed,
                   exited, wpend, memory, next_free_frame, vm>>

\* The CPU at the ECALL of the syscall a7 with argument a0.
AtEcall(a7, a0) == [cpu EXCEPT !.pc = "ecall", !.a7 = a7, !.a0 = a0]
\* The CPU past a syscall that returned val.
Past(c, val) == [c EXCEPT !.pc = "user", !.a0 = val]

\* Some thread is in the ready queue.
OthersReady == ensure_current_thread(tm, cpu).ready_queue # <<>>
\* The scheduler has a thread to run when the running thread yields: one
\* that is queued, or else the running thread itself, which is queued when
\* it is Running.
CanSwitch == OthersReady \/ CallerTcb.state = Running

ContextTimer ==
    ContextTrap("TimerInterrupt", cpu, Caller, CanSwitch, cpu, None, NoCode)

ContextYield ==
    ContextTrap("EnvironmentCall", AtEcall(SYS_YIELD, 0), Caller, CanSwitch,
                Past(AtEcall(SYS_YIELD, 0), 0), None, NoCode)

ContextCreate ==
    /\ ensure_current_thread(tm, cpu).next_handle <= MaxThreads
    /\ ContextTrap("EnvironmentCall", AtEcall(SYS_THREAD_CREATE, 0), Caller,
                   FALSE, cpu, None, NoCode)

ContextExit ==
    \E code \in ExitCodes :
        ContextTrap("EnvironmentCall", AtEcall(SYS_EXIT, code), Caller, FALSE,
                    cpu, None, code)

\* waitpid switches the caller out when the target has not terminated and
\* a thread is ready.
ContextWaitPid ==
    \E target \in Handles :
        ContextTrap("EnvironmentCall", AtEcall(SYS_WAITPID, target), Caller,
                    /\ wait_current_thread(ensure_current_thread(tm, cpu),
                                           target).res = "waiting"
                    /\ OthersReady,
                    Past(AtEcall(SYS_WAITPID, target), 0), target, NoCode)

NextContext ==
    \/ UserCode
    \/ ContextTimer
    \/ ContextYield
    \/ ContextCreate
    \/ ContextExit
    \/ ContextWaitPid

SpecContext == InitContext /\ [][NextContext]_vars

\* C32: a thread that is resumed after it was switched out gets the PC, the
\* registers, the satp and the privilege mode it was switched out with, but
\* for a0 when it was switched out by waitpid: a0 then holds the exit code of
\* the thread it waited for.
C32_ResumedAsSwitchedOut ==
    probe.op = "context" /\ probe.resumed.h # None =>
        LET got == probe.resumed.got
            expect == probe.resumed.expect
        IN  /\ got.pc = expect.pc
            /\ got.a2 = expect.a2 /\ got.a7 = expect.a7 /\ got.s0 = expect.s0
            /\ got.satp = expect.satp
            /\ got.mode = expect.mode
            /\ got.a0 = IF probe.resumed.target = None THEN expect.a0
                        ELSE probe.resumed.code

====
